---- MODULE Spec2Model ----
(***************************************************************************)
(* ProjectAtlas: the header-extraction and consistency-checking engine     *)
(* (src/src/projectatlas/atlas.py, cli.py, output.py).                     *)
(*                                                                         *)
(* Text is modelled at character level: a string is a sequence of          *)
(* one-character strings, a file is its raw text (lines separated by the   *)
(* newline character), a path is a sequence of segments.                   *)
(***************************************************************************)
EXTENDS Integers, Sequences, FiniteSets, TLC

(***************************************************************************)
(* Characters                                                              *)
(***************************************************************************)

\* The characters used by the model, in ascending code point order
\* (Python compares strings by code point).
UpperLetters ==
    << "A", "B", "C", "D", "E", "F", "G", "H", "I", "J", "K", "L", "M",
       "N", "O", "P", "Q", "R", "S", "T", "U", "V", "W", "X", "Y", "Z" >>

LowerLetters ==
    << "a", "b", "c", "d", "e", "f", "g", "h", "i", "j", "k", "l", "m",
       "n", "o", "p", "q", "r", "s", "t", "u", "v", "w", "x", "y", "z" >>

Digits == <<"0", "1", "2", "3", "4", "5", "6", "7", "8", "9">>

\* The non-ASCII characters of the model: e-acute (U+00E9), and
\* superscript two (U+00B2), a digit for str.isdigit() that is not a
\* decimal digit for int().
EAcute == "\\u00e9"
SuperTwo == "\\u00b2"

\* In the content of a file: a byte that is not valid UTF-8, and the
\* character U+FFFD that decoding with errors="replace" puts in its place.
BadByte == "\\xff"
Replacement == "\\ufffd"

CharOrder ==
    << "\t", "\n", " ", "!", "\"", "#", "'", "*", ",", "-", ".", "/" >>
    \o Digits \o << ":", "<", "=", ">" >>
    \o UpperLetters \o << "[", "]", "_" >>
    \o LowerLetters \o << "{", "|", "}", SuperTwo, EAcute >>

Alphabet == {CharOrder[i] : i \in 1..Len(CharOrder)}

\* Code point rank of a character; the characters of a digest (see
\* sha256) are outside the alphabet and are never compared by order.
Ord(c) == CHOOSE i \in 1..Len(CharOrder) : CharOrder[i] = c

\* What str.strip() and the regex class \s remove.
Whitespace == {" ", "\t", "\n"}

\* str.isascii() fails on these.
NonAscii == {SuperTwo, EAcute, Replacement}

\* The regex class \w restricted to the alphabet.
WordChars ==
    { Digits[i] : i \in 1..10 } \cup { UpperLetters[i] : i \in 1..26 }
        \cup { LowerLetters[i] : i \in 1..26 } \cup {"_", SuperTwo, EAcute}

\* str.lower() on one character.
LowerChar(c) ==
    IF \E i \in 1..26 : UpperLetters[i] = c
    THEN LowerLetters[CHOOSE i \in 1..26 : UpperLetters[i] = c]
    ELSE c

(***************************************************************************)
(* String primitives (Python str methods used by the source)               *)
(***************************************************************************)

Min(S) == CHOOSE x \in S : \A y \in S : x <= y
Max(S) == 0 - Min({ 0 - x : x \in S })

\* s[i:] with a 1-based index.
From(s, i) == SubSeq(s, i, Len(s))

StartsWith(s, p) == Len(p) <= Len(s) /\ SubSeq(s, 1, Len(p)) = p
EndsWith(s, p) == Len(p) <= Len(s) /\ SubSeq(s, Len(s) - Len(p) + 1, Len(s)) = p

\* str.find: 1-based index of the first occurrence of p in s, 0 if none.
Find(s, p) ==
    LET hits == { i \in 1..(Len(s) - Len(p) + 1) : SubSeq(s, i, i + Len(p) - 1) = p }
    IN  IF hits = {} THEN 0 ELSE Min(hits)

\* p in s
Contains(s, p) == Find(s, p) # 0

\* str.count of a single character
Count(s, c) == Cardinality({ i \in 1..Len(s) : s[i] = c })

\* str.strip(), str.lstrip()
Strip(s) ==
    LET keep == { i \in 1..Len(s) : s[i] \notin Whitespace }
    IN  IF keep = {} THEN <<>> ELSE SubSeq(s, Min(keep), Max(keep))

LStrip(s) ==
    LET keep == { i \in 1..Len(s) : s[i] \notin Whitespace }
    IN  IF keep = {} THEN <<>> ELSE From(s, Min(keep))

\* str.strip(chars) for a single character
StripChar(s, c) ==
    LET keep == { i \in 1..Len(s) : s[i] # c }
    IN  IF keep = {} THEN <<>> ELSE SubSeq(s, Min(keep), Max(keep))

\* s.split(sep, 1): the text before and after the first sep, or the whole
\* string alone when sep does not occur.
SplitOnce(s, sep) ==
    LET i == Find(s, sep)
    IN  IF i = 0 THEN <<s>>
        ELSE <<SubSeq(s, 1, i - 1), From(s, i + Len(sep))>>

\* sep.join(parts)
RECURSIVE Join(_, _)
Join(parts, sep) ==
    IF parts = <<>> THEN <<>>
    ELSE IF Len(parts) = 1 THEN parts[1]
    ELSE parts[1] \o sep \o Join(Tail(parts), sep)

\* The fields of s from index `start` on, `cuts` being the indices of
\* the separators not yet passed.
RECURSIVE SplitFrom(_, _, _)
SplitFrom(s, cuts, start) ==
    IF cuts = {} THEN <<SubSeq(s, start, Len(s))>>
    ELSE <<SubSeq(s, start, Min(cuts) - 1)>>
             \o SplitFrom(s, cuts \ {Min(cuts)}, Min(cuts) + 1)

\* str.split(sep) for a one-character separator: always at least one field.
Split(s, c) == SplitFrom(s, { i \in 1..Len(s) : s[i] = c }, 1)

\* str.split() with no argument: the maximal runs of non-whitespace.
RECURSIVE SplitWhitespace(_)
SplitWhitespace(s) ==
    LET t == LStrip(s)
        stop == { i \in 1..Len(t) : t[i] \in Whitespace }
    IN  IF t = <<>> THEN <<>>
        ELSE IF stop = {} THEN <<t>>
        ELSE <<SubSeq(t, 1, Min(stop) - 1)>> \o SplitWhitespace(From(t, Min(stop)))

\* str.splitlines(): split at newlines; a trailing newline ends the last
\* line and opens no empty one.
splitlines(text) ==
    IF text = <<>> THEN <<>>
    ELSE IF text[Len(text)] = "\n" THEN Split(SubSeq(text, 1, Len(text) - 1), "\n")
    ELSE Split(text, "\n")

\* Python's string order: first differing code point, a proper prefix first.
RECURSIVE StrLess(_, _)
StrLess(a, b) ==
    IF b = <<>> THEN FALSE
    ELSE IF a = <<>> THEN TRUE
    ELSE IF a[1] = b[1] THEN StrLess(Tail(a), Tail(b))
    ELSE Ord(a[1]) < Ord(b[1])

\* str(int) and int(str) for non-negative integers.
RECURSIVE ToDecimal(_)
ToDecimal(n) ==
    IF n < 10 THEN <<Digits[n + 1]>>
    ELSE ToDecimal(n \div 10) \o <<Digits[(n % 10) + 1]>>

DigitValue(c) == (CHOOSE i \in 1..10 : Digits[i] = c) - 1

\* str.isdigit()
isdigit(s) ==
    s # <<>> /\ \A i \in 1..Len(s) : s[i] = SuperTwo \/ \E d \in 1..10 : Digits[d] = s[i]

\* int(s) raises ValueError on a string of digits that are not all decimal.
IntRaises(s) == \E i \in 1..Len(s) : s[i] = SuperTwo

RECURSIVE ParseInt(_)
ParseInt(s) ==
    IF s = <<>> THEN 0
    ELSE 10 * ParseInt(SubSeq(s, 1, Len(s) - 1)) + DigitValue(s[Len(s)])

\* sorted(items, key=...): a stable insertion sort of <<key, item>> pairs.
RECURSIVE SortPairs(_)
SortPairs(pairs) ==
    IF pairs = <<>> THEN <<>>
    ELSE LET rest == SortPairs(Tail(pairs))
             x == pairs[1]
             \* x goes before the first pair whose key is not smaller
             \* (x came first in the input: stability)
             before == { i \in 1..Len(rest) : ~StrLess(rest[i][1], x[1]) }
             pos == IF before = {} THEN Len(rest) + 1 ELSE Min(before)
         IN  SubSeq(rest, 1, pos - 1) \o <<x>> \o SubSeq(rest, pos, Len(rest))

SortBy(items, Key(_)) ==
    LET sorted == SortPairs([i \in 1..Len(items) |-> <<Key(items[i]), items[i]>>])
    IN  [i \in 1..Len(items) |-> sorted[i][2]]

\* All the orders in which a traversal can meet the members of a set.
RECURSIVE Orders(_)
Orders(S) ==
    IF S = {} THEN {<<>>}
    ELSE UNION { { <<x>> \o rest : rest \in Orders(S \ {x}) } : x \in S }

Range(f) == { f[i] : i \in DOMAIN f }

\* The member of a one-member set. An intermediate result is bound as
\* the member of its singleton, { Body(x) : x \in {value} }, where the
\* source assigns it to a local variable that it reads several times.
The(S) == CHOOSE x \in S : TRUE

(***************************************************************************)
(* Literals of the source                                                  *)
(***************************************************************************)

PurposeTag == <<"P", "u", "r", "p", "o", "s", "e", ":">>
TripleDouble == <<"\"", "\"", "\"">>
TripleSingle == <<"'", "'", "'">>
JavadocOpen == <<"/", "*", "*">>
BlockClose == <<"*", "/">>
Shebang == <<"#", "!">>
MISSING == <<"M", "I", "S", "S", "I", "N", "G">>
INVALID == <<"I", "N", "V", "A", "L", "I", "D">>

\* PURPOSE_COMMENT_PREFIXES
PURPOSE_COMMENT_PREFIXES == { <<"#">>, <<"/", "/">> }

\* A variant of MissingHeaderIssues: the prefix test with its second
\* alternative (the module docstring) left out.
MissingHeaderIssuesJavadocOnly ==
    { "missing Javadoc-style Purpose header",
      "missing Javadoc-style Purpose header in <script> block",
      "missing Javadoc-style Purpose header in <style> block",
      "missing Javadoc-style Purpose header in <script> or <style> block" }

\* The issue texts that begin with "missing Javadoc-style" or with
\* "missing module docstring": the prefix test of build_file_records,
\* over the issue literals the extractors can return.
MissingHeaderIssues ==
    { "missing Javadoc-style Purpose header",
      "missing Javadoc-style Purpose header in <script> block",
      "missing Javadoc-style Purpose header in <style> block",
      "missing Javadoc-style Purpose header in <script> or <style> block",
      "missing module docstring Purpose header" }

(***************************************************************************)
(* Regular expressions of the source                                       *)
(***************************************************************************)

\* PURPOSE_RE.search(s), the pattern Purpose:\s*(.+)$ : the leftmost
\* "Purpose:" that has at least one character after it matches; \s* is
\* greedy but gives one character back when nothing else is left for (.+).
\* Result: whether it matched, and group(1).
PURPOSE_RE(s) ==
    LET hits == { i \in 1..(Len(s) - Len(PurposeTag)) :
                    SubSeq(s, i, i + Len(PurposeTag) - 1) = PurposeTag }
        rest == From(s, Min(hits) + Len(PurposeTag))
        after == LStrip(rest)
    IN  IF hits = {} THEN [matched |-> FALSE, group |-> <<>>]
        ELSE [matched |-> TRUE,
              group |-> IF after # <<>> THEN after ELSE <<rest[Len(rest)]>>]

\* JAVADOC_START_RE.match(line), the pattern ^\s*/\*\*
JAVADOC_START_RE(line) == StartsWith(LStrip(line), JavadocOpen)

\* JAVADOC_END_RE.search(line), the pattern \*/
JAVADOC_END_RE(line) == Contains(line, BlockClose)

\* PY_DOCSTRING_START_RE.match(line): any run of the letters rubfRUBF and
\* then a triple quote. Result: whether it matched, group(1) and
\* match.end() (the number of characters consumed).
PY_DOCSTRING_START_RE(line) ==
    LET letters == {"r", "u", "b", "f", "R", "U", "B", "F"}
        other == { i \in 1..Len(line) : line[i] \notin letters }
        n == IF other = {} THEN Len(line) ELSE Min(other) - 1
        quote == SubSeq(line, n + 1, Min({n + 3, Len(line)}))
    IN  IF quote \in {TripleDouble, TripleSingle}
        THEN [matched |-> TRUE, delimiter |-> quote, end |-> n + 3]
        ELSE [matched |-> FALSE, delimiter |-> <<>>, end |-> 0]

\* PY_CODING_RE.match(line), the pattern ^#.*coding[:=]
PY_CODING_RE(line) ==
    /\ StartsWith(line, <<"#">>)
    /\ \/ Contains(Tail(line), <<"c", "o", "d", "i", "n", "g", ":">>)
       \/ Contains(Tail(line), <<"c", "o", "d", "i", "n", "g", "=">>)

\* re.match(rf"\s*<{tag}\b", line)
VueOpenTag(tag, line) ==
    LET t == LStrip(line)
        open == <<"<">> \o tag
    IN  /\ StartsWith(t, open)
        /\ Len(t) = Len(open) \/ t[Len(open) + 1] \notin WordChars

\* re.match(rf"\s*</{tag}>", line)
VueCloseTag(tag, line) == StartsWith(LStrip(line), <<"<", "/">> \o tag \o <<">">>)

\* re.sub(r"^/\*\*+", "", s)
SubJavadocOpen(s) ==
    LET nonstar == { i \in 2..Len(s) : s[i] # "*" }
    IN  IF ~StartsWith(s, JavadocOpen) THEN s
        ELSE IF nonstar = {} THEN <<>> ELSE From(s, Min(nonstar))

\* re.sub(r"\*/$", "", s)
SubBlockClose(s) ==
    IF EndsWith(s, BlockClose) THEN SubSeq(s, 1, Len(s) - 2) ELSE s

\* re.sub(r"^\*+", "", s)
SubLeadingStars(s) ==
    LET nonstar == { i \in 1..Len(s) : s[i] # "*" }
    IN  IF nonstar = {} THEN <<>> ELSE From(s, Min(nonstar))

(***************************************************************************)
(* HeaderExtractor and SummaryValidator                                    *)
(***************************************************************************)

\* re.sub(r"\s+", " ", s): every whitespace run becomes one space.
RECURSIVE CollapseWhitespace(_)
CollapseWhitespace(s) ==
    IF s = <<>> THEN <<>>
    ELSE IF s[1] \in Whitespace THEN <<" ">> \o CollapseWhitespace(LStrip(s))
    ELSE <<s[1]>> \o CollapseWhitespace(Tail(s))

normalize_summary(summary) == CollapseWhitespace(Strip(summary))

\* An absent summary (None) and a present one.
None == [has |-> FALSE, text |-> <<>>]
Some(text) == [has |-> TRUE, text |-> text]

\* Python truthiness of "str | None": None and "" are both false.
Truthy(summary) == summary.has /\ summary.text # <<>>

Extraction(summary, issues) == [summary |-> summary, issues |-> issues]

\* The cleaning of one raw line in extract_purpose_from_lines.
CleanLine(raw) == Strip(SubLeadingStars(SubBlockClose(SubJavadocOpen(Strip(raw)))))

extract_purpose_from_lines(lines) ==
    LET hits == { i \in 1..Len(lines) : PURPOSE_RE(CleanLine(lines[i])).matched }
    IN  IF hits = {} THEN None
        ELSE Some(normalize_summary(PURPOSE_RE(CleanLine(lines[Min(hits)])).group))

\* The scan for the line that closes a block opened at line `opener`
\* (1-based): the lines after the opener whose 0-based index is below
\* both len(lines) and max_scan_lines; 0 when the loop runs out.
ClosingLine(lines, opener, max_scan_lines, Closes(_)) ==
    LET last == IF Len(lines) < max_scan_lines THEN Len(lines) ELSE max_scan_lines
        hits == { j \in (opener + 1)..last : Closes(lines[j]) }
    IN  IF hits = {} THEN 0 ELSE Min(hits)

extract_javadoc_purpose(lines, max_scan_lines) ==
    LET first == IF lines # <<>> /\ StartsWith(lines[1], Shebang) THEN 2 ELSE 1
        content == { i \in first..Len(lines) : Strip(lines[i]) # <<>> }
        idx == IF content = {} THEN Len(lines) + 1 ELSE Min(content)
        close == ClosingLine(lines, idx, max_scan_lines, JAVADOC_END_RE)
        block_lines == SubSeq(lines, idx, close)
        summary == extract_purpose_from_lines(block_lines)
    IN  IF idx > Len(lines) \/ ~JAVADOC_START_RE(lines[idx])
        THEN Extraction(None, <<"missing Javadoc-style Purpose header">>)
        ELSE IF close = 0
        THEN Extraction(None, <<"unterminated Javadoc-style header">>)
        ELSE IF ~Truthy(summary)
        THEN Extraction(None, <<"missing Purpose line in Javadoc-style header">>)
        ELSE Extraction(summary, <<>>)

extract_python_docstring_purpose(lines, max_scan_lines) ==
    LET Skipped(raw) ==
            LET line == Strip(raw)
            IN  \/ StartsWith(line, Shebang) \/ PY_CODING_RE(line) \/ line = <<>>
                \/ StartsWith(line, <<"#">>)
        content == { i \in 1..Len(lines) : ~Skipped(lines[i]) }
        idx == IF content = {} THEN Len(lines) + 1 ELSE Min(content)
        start_line == Strip(lines[idx])
        match == PY_DOCSTRING_START_RE(start_line)
        delimiter == match.delimiter
        remainder == From(start_line, match.end + 1)
        HasDelimiter(line) == Contains(line, delimiter)
        close == ClosingLine(lines, idx, max_scan_lines, HasDelimiter)
        one_line == extract_purpose_from_lines(<<SplitOnce(remainder, delimiter)[1]>>)
        block_lines == SubSeq(lines, idx + 1, close - 1)
                           \o <<SplitOnce(lines[close], delimiter)[1]>>
        summary == extract_purpose_from_lines(block_lines)
    IN  IF idx > Len(lines)
        THEN Extraction(None, <<"missing module docstring Purpose header">>)
        ELSE IF ~match.matched
        THEN Extraction(None, <<"missing module docstring Purpose header">>)
        ELSE IF Contains(remainder, delimiter)
        THEN IF ~Truthy(one_line)
             THEN Extraction(None, <<"missing Purpose line in module docstring">>)
             ELSE Extraction(one_line, <<>>)
        ELSE IF close = 0
        THEN Extraction(None, <<"unterminated module docstring">>)
        ELSE IF ~Truthy(summary)
        THEN Extraction(None, <<"missing Purpose line in module docstring">>)
        ELSE Extraction(summary, <<>>)

ScriptTag == <<"s", "c", "r", "i", "p", "t">>
StyleTag == <<"s", "t", "y", "l", "e">>

\* One round of the loop over ("script", "style") in extract_vue_purpose,
\* for a tag that has an opening line.
VueBlock(lines, max_scan_lines, tag, name) ==
    LET start == Min({ i \in 1..Len(lines) : VueOpenTag(tag, lines[i]) })
        ends == { i \in (start + 1)..Len(lines) : VueCloseTag(tag, lines[i]) }
    IN  IF ends = {}
        THEN Extraction(None, << "unterminated <" \o name \o "> block" >>)
        ELSE The({ IF Truthy(inner.summary) THEN inner
                   ELSE Extraction(None, << "missing Javadoc-style Purpose header in <"
                                                \o name \o "> block" >>) :
                     inner \in { extract_javadoc_purpose(
                                     SubSeq(lines, start + 1, Min(ends) - 1),
                                     max_scan_lines) } })

\* A variant of extract_vue_purpose: the style block comes first.
extract_vue_purpose_style_first(lines, max_scan_lines) ==
    IF \E i \in 1..Len(lines) : VueOpenTag(StyleTag, lines[i])
    THEN VueBlock(lines, max_scan_lines, StyleTag, "style")
    ELSE IF \E i \in 1..Len(lines) : VueOpenTag(ScriptTag, lines[i])
    THEN VueBlock(lines, max_scan_lines, ScriptTag, "script")
    ELSE Extraction(None,
             <<"missing Javadoc-style Purpose header in <script> or <style> block">>)

extract_vue_purpose(lines, max_scan_lines) ==
    IF \E i \in 1..Len(lines) : VueOpenTag(ScriptTag, lines[i])
    THEN VueBlock(lines, max_scan_lines, ScriptTag, "script")
    ELSE IF \E i \in 1..Len(lines) : VueOpenTag(StyleTag, lines[i])
    THEN VueBlock(lines, max_scan_lines, StyleTag, "style")
    ELSE Extraction(None,
             <<"missing Javadoc-style Purpose header in <script> or <style> block">>)

\* A variant of validate_summary: the checks are alternatives, so only
\* the first violated rule is reported.
validate_summary_first_problem(summary, config) ==
    IF summary = <<>> THEN <<"summary is empty">>
    ELSE IF config.summary_no_commas /\ Contains(summary, <<",">>)
    THEN <<"summary contains a comma">>
    ELSE IF config.summary_ascii_only /\ \E i \in 1..Len(summary) : summary[i] \in NonAscii
    THEN <<"summary contains non-ASCII characters">>
    ELSE IF Len(summary) > config.summary_max_length
    THEN <<"summary exceeds length limit">>
    ELSE <<>>

validate_summary(summary, config) ==
    (IF summary = <<>> THEN <<"summary is empty">> ELSE <<>>)
    \o (IF config.summary_no_commas /\ Contains(summary, <<",">>)
        THEN <<"summary contains a comma">> ELSE <<>>)
    \o (IF config.summary_ascii_only /\ \E i \in 1..Len(summary) : summary[i] \in NonAscii
        THEN <<"summary contains non-ASCII characters">> ELSE <<>>)
    \o (IF Len(summary) > config.summary_max_length
        THEN <<"summary exceeds length limit">> ELSE <<>>)

(***************************************************************************)
(* Paths and the file system                                               *)
(*                                                                         *)
(* A path relative to the repository root is its sequence of segments      *)
(* (the root is the empty sequence). A file system is a record             *)
(* [dirs |-> the directories below the root, files |-> path :> text].      *)
(***************************************************************************)

RootPath == <<>>

\* Path.as_posix() of a relative path
AsPosix(path) == IF path = <<>> THEN <<".">> ELSE Join(path, <<"/">>)

\* Path.name, Path.parent
Name(path) == path[Len(path)]
Parent(path) == SubSeq(path, 1, Len(path) - 1)

\* Path(text): "/" separates segments; empty and "." segments vanish.
\* (Absolute paths are outside the model.)
ParsePath(text) ==
    SelectSeq(Split(text, "/"), LAMBDA seg : seg # <<>> /\ seg # <<".">>)

\* Path.suffix: from the last dot of the name, unless that dot is the
\* first or the last character.
Suffix(name) ==
    LET dots == { i \in 1..Len(name) : name[i] = "." }
    IN  IF dots # {} /\ 1 < Max(dots) /\ Max(dots) < Len(name)
        THEN From(name, Max(dots)) ELSE <<>>

Lower(s) == [i \in 1..Len(s) |-> LowerChar(s[i])]

\* Path.exists()
Exists(fs, path) == path = RootPath \/ path \in fs.dirs \/ path \in DOMAIN fs.files

IsFile(fs, path) == path \in DOMAIN fs.files

is_under_prefix(rel_posix, prefixes) ==
    \E prefix \in prefixes :
        rel_posix = prefix \/ StartsWith(rel_posix, prefix \o <<"/">>)

is_excluded_rel_path(rel_path, config) ==
    IF rel_path = RootPath THEN FALSE
    ELSE \/ \E i \in 1..Len(rel_path) : rel_path[i] \in config.exclude_dir_names
         \/ \E i \in 1..Len(rel_path) :
                \E suffix \in config.exclude_dir_suffixes : EndsWith(rel_path[i], suffix)
         \/ is_under_prefix(AsPosix(rel_path), config.exclude_path_prefixes)

file_extension(path) ==
    IF EndsWith(Name(path), <<".", "d", ".", "t", "s">>)
    THEN <<".", "d", ".", "t", "s">>
    ELSE Lower(Suffix(Name(path)))

is_source_file(path, config) == file_extension(path) \in config.source_extensions

is_asset_file(path, config) == Lower(Suffix(Name(path))) \in config.asset_extensions

is_allowed_untracked(rel_path, config) ==
    \/ Name(rel_path) \in config.allowed_untracked_filenames
    \/ AsPosix(rel_path) \in config.untracked_allowlist_files
    \/ is_under_prefix(AsPosix(rel_path), config.untracked_allowlist_dir_prefixes)

(***************************************************************************)
(* RepositoryWalker                                                        *)
(***************************************************************************)

\* The entries os.walk lists in directory d.
SubDirs(fs, d) == { p \in fs.dirs : Len(p) = Len(d) + 1 /\ Parent(p) = d }
FilesIn(fs, d) == { p \in DOMAIN fs.files : Len(p) = Len(d) + 1 /\ Parent(p) = d }

\* The directories os.walk(root) yields, top-down, given that the loop
\* body prunes dirnames (all of them below an excluded directory, the
\* excluded ones below a tracked directory) before os.walk descends.
RECURSIVE Yielded(_, _, _)
Yielded(fs, config, d) ==
    LET dirnames == IF is_excluded_rel_path(d, config) THEN {}
                    ELSE { c \in SubDirs(fs, d) : ~is_excluded_rel_path(c, config) }
    IN  {d} \cup UNION { Yielded(fs, config, c) : c \in dirnames }

\* A variant of Collected: the untracked files stay among the tracked
\* files.
CollectedKeepingUntracked(fs, config) ==
    LET yielded == Yielded(fs, config, RootPath)
        tracked == { d \in yielded : ~is_excluded_rel_path(d, config) }
        listed == { p \in DOMAIN fs.files :
                      /\ Parent(p) \in tracked
                      /\ ~is_excluded_rel_path(Parent(p), config) }
        untracked == { p \in listed :
                         \/ is_under_prefix(AsPosix(p), config.non_source_path_prefixes)
                         \/ ~is_source_file(p, config) }
    IN  [ folders |-> tracked,
          files |-> listed,
          untracked_files |-> untracked,
          excluded_paths |-> { AsPosix(d) : d \in (yielded \ tracked) \ {RootPath} } ]

\* What the loop body collects, as sets (the loop appends in the order in
\* which the operating system lists the entries).
Collected(fs, config) ==
    LET yielded == Yielded(fs, config, RootPath)
        tracked == { d \in yielded : ~is_excluded_rel_path(d, config) }
        listed == { p \in DOMAIN fs.files :
                      /\ Parent(p) \in tracked
                      /\ ~is_excluded_rel_path(Parent(p), config) }
        untracked == { p \in listed :
                         \/ is_under_prefix(AsPosix(p), config.non_source_path_prefixes)
                         \/ ~is_source_file(p, config) }
    IN  [ folders |-> tracked,
          files |-> listed \ untracked,
          untracked_files |-> untracked,
          excluded_paths |-> { AsPosix(d) : d \in (yielded \ tracked) \ {RootPath} } ]

\* A variant of SortedOutcomes: the lists as the traversal appended them,
\* not sorted.
UnsortedOutcomes(paths) == Orders(paths)

\* sorted(paths, key=as_posix), for every order in which the traversal
\* can have appended the paths.
SortedOutcomes(paths) == { SortBy(order, AsPosix) : order \in Orders(paths) }

\* sorted(set of strings)
SortedStrings(strings) ==
    { SortBy(order, LAMBDA s : s) : order \in Orders(strings) }

\* The possible results of iter_repo_paths_with_untracked: one for every
\* listing order of the operating system.
iter_repo_paths_with_untracked(fs, config) ==
    LET c == Collected(fs, config)
    IN  { [ folders |-> fo, files |-> fi, untracked_files |-> un, excluded_paths |-> ex ] :
            fo \in SortedOutcomes(c.folders),
            fi \in SortedOutcomes(c.files),
            un \in SortedOutcomes(c.untracked_files),
            ex \in SortedStrings(c.excluded_paths) }

\* iter_repo_paths keeps the first two lists.
iter_repo_paths(fs, config) ==
    { [ folders |-> w.folders, files |-> w.files ] :
        w \in iter_repo_paths_with_untracked(fs, config) }

(***************************************************************************)
(* RecordBuilder (files)                                                   *)
(***************************************************************************)

\* models.Record; source is one of header, manual, purpose, missing, invalid
Record(path, summary, source) == [path |-> path, summary |-> summary, source |-> source]

\* The elements of a sequence whose index satisfies Keep, in order.
Pick(seq, Keep(_)) ==
    LET idx == { i \in 1..Len(seq) : Keep(i) }
        RECURSIVE Walk(_)
        Walk(i) == IF i > Len(seq) THEN <<>>
                   ELSE (IF i \in idx THEN <<seq[i]>> ELSE <<>>) \o Walk(i + 1)
    IN  Walk(1)

PyExt == <<".", "p", "y">>
VueExt == <<".", "v", "u", "e">>

\* path.read_text(encoding="utf-8") raises UnicodeDecodeError
ReadTextRaises(fs, path) ==
    \E i \in 1..Len(fs.files[path]) : fs.files[path][i] = BadByte

\* path.read_text(encoding="utf-8", errors="replace")
ReadTextReplacing(fs, path) ==
    [i \in 1..Len(fs.files[path]) |->
        IF fs.files[path][i] = BadByte THEN Replacement ELSE fs.files[path][i]]

\* A variant of extract_purpose_header: the whole file is scanned for
\* the close marker.
extract_purpose_header_unbounded(path, fs, config) ==
    The({ IF ext = PyExt THEN extract_python_docstring_purpose(lines, Len(lines))
          ELSE IF ext = VueExt THEN extract_vue_purpose(lines, Len(lines))
          ELSE extract_javadoc_purpose(lines, Len(lines)) :
            lines \in { splitlines(ReadTextReplacing(fs, path)) },
            ext \in { file_extension(path) } })

extract_purpose_header(path, fs, config) ==
    The({ IF ext = PyExt THEN extract_python_docstring_purpose(lines, config.max_scan_lines)
          ELSE IF ext = VueExt THEN extract_vue_purpose(lines, config.max_scan_lines)
          ELSE extract_javadoc_purpose(lines, config.max_scan_lines) :
            lines \in { splitlines(ReadTextReplacing(fs, path)) },
            ext \in { file_extension(path) } })

\* One iteration of the loop of build_file_records, from the result
\* `header` of extract_purpose_header on: the record appended, and whether
\* the path goes to `missing` or (with which issues) to `invalid`.
FileRecord(rel, header, config) ==
    LET issues == validate_summary(header.summary.text, config)
    IN  IF ~Truthy(header.summary)
        THEN IF \E i \in 1..Len(header.issues) : header.issues[i] \in MissingHeaderIssues
             THEN [record |-> Record(rel, MISSING, "missing"),
                   list |-> "missing", issues |-> <<>>]
             ELSE [record |-> Record(rel, MISSING, "missing"),
                   list |-> "invalid", issues |-> header.issues]
        ELSE IF issues # <<>>
        THEN [record |-> Record(rel, INVALID, "invalid"),
              list |-> "invalid", issues |-> issues]
        ELSE [record |-> Record(rel, header.summary.text, "header"),
              list |-> "none", issues |-> <<>>]

FileOutcome(path, fs, config) ==
    The({ FileRecord(AsPosix(path), header, config) :
            header \in { extract_purpose_header(path, fs, config) } })

\* The three results of a record-building loop over per-item outcomes:
\* records in input order, the missing paths in input order, and the
\* invalid dict (a later item with the same path overwrites an earlier one).
Collect(outcomes) ==
    LET invalid_at == { i \in 1..Len(outcomes) : outcomes[i].list = "invalid" }
    IN  [ records |-> [i \in 1..Len(outcomes) |-> outcomes[i].record],
          missing |-> [i \in 1..Len(Pick(outcomes, LAMBDA j : outcomes[j].list = "missing")) |->
                          Pick(outcomes, LAMBDA j : outcomes[j].list = "missing")[i].record.path],
          invalid |-> [rel \in { outcomes[i].record.path : i \in invalid_at } |->
                          outcomes[Max({ i \in invalid_at :
                                          outcomes[i].record.path = rel })].issues] ]

build_file_records(files, fs, config) ==
    The({ Collect(outcomes) :
            outcomes \in { [i \in 1..Len(files) |-> FileOutcome(files[i], fs, config)] } })

(***************************************************************************)
(* ManualEntryReconciler                                                   *)
(***************************************************************************)

ManualFilesHeader == <<"m", "a", "n", "u", "a", "l", "_", "f", "i", "l", "e", "s", "[">>
FoldersHeader == <<"f", "o", "l", "d", "e", "r", "s", "[">>
FilesHeader == <<"f", "i", "l", "e", "s", "[">>

\* The loop of read_manual_file_entries over the remaining lines, with
\* the current value of in_manual: the outcomes of the lines that produce
\* an entry, in order.
RECURSIVE ManualLoop(_, _, _, _)
ManualLoop(lines, in_manual, fs, config) ==
    IF lines = <<>> THEN <<>>
    ELSE
    LET line == Strip(lines[1])
        Rest(flag) == ManualLoop(Tail(lines), flag, fs, config)
        parts == SplitOnce(line, <<",">>)
        rel_posix == AsPosix(ParsePath(Strip(parts[1])))
        summary == Strip(parts[2])
        issues == validate_summary(summary, config)
    IN  IF line = <<>> THEN Rest(in_manual)
        ELSE IF StartsWith(line, <<"#">>) \/ StartsWith(line, <<"/", "/">>)
        THEN Rest(in_manual)
        ELSE IF StartsWith(line, ManualFilesHeader) THEN Rest(TRUE)
        ELSE IF StartsWith(line, FoldersHeader) \/ StartsWith(line, FilesHeader)
        THEN Rest(FALSE)
        ELSE IF ~in_manual \/ StartsWith(line, <<"-">>) \/ Contains(line, <<":">>)
        THEN Rest(in_manual)
        ELSE IF Len(parts) # 2 THEN Rest(in_manual)
        ELSE IF ~Exists(fs, ParsePath(rel_posix))
        THEN << [record |-> Record(rel_posix, MISSING, "missing"),
                 list |-> "missing", issues |-> <<>>] >> \o Rest(in_manual)
        ELSE IF issues # <<>>
        THEN << [record |-> Record(rel_posix, INVALID, "invalid"),
                 list |-> "invalid", issues |-> issues] >> \o Rest(in_manual)
        ELSE << [record |-> Record(rel_posix, summary, "manual"),
                 list |-> "none", issues |-> <<>>] >> \o Rest(in_manual)

NoEntries == [records |-> <<>>, missing |-> <<>>, invalid |-> <<>>, errors |-> <<>>]

\* config.manual_files_path is None, or Some(path).
read_manual_file_entries(fs, config) ==
    IF ~config.manual_files_path.has THEN NoEntries
    ELSE IF ~Exists(fs, config.manual_files_path.text)
    THEN [NoEntries EXCEPT !.errors = <<"manual file list missing">>]
    ELSE The({ [ records |-> Collect(entries).records,
                 missing |-> Collect(entries).missing,
                 invalid |-> Collect(entries).invalid,
                 errors |-> <<>> ] :
               entries \in { ManualLoop(splitlines(fs.files[config.manual_files_path.text]),
                                        FALSE, fs, config) } })

RecordPath(record) == record.path

\* A variant of merge_manual_file_records: the manual record of a path
\* replaces the auto-discovered one.
merge_manual_wins(records, manual) ==
    LET named == { manual[i].path : i \in 1..Len(manual) }
        kept == Pick(records, LAMBDA i : records[i].path \notin named)
        added == Pick(manual, LAMBDA i : \A j \in 1..(i - 1) : manual[j].path # manual[i].path)
    IN  SortBy(kept \o added, RecordPath)

\* A variant of merge_manual_file_records: the values of the dict as
\* they were inserted, not sorted.
merge_unsorted(records, manual) ==
    LET auto == { records[i].path : i \in 1..Len(records) }
        added == Pick(manual,
                      LAMBDA i : /\ manual[i].path \notin auto
                                 /\ \A j \in 1..(i - 1) : manual[j].path # manual[i].path)
    IN  records \o added

\* dict insertion: the first entry of each path keeps its place.
merge_manual_file_records(records, manual) ==
    LET auto == { records[i].path : i \in 1..Len(records) }
        \* {record.path: record for record in records}: the last record
        \* of a path, at the place of the first
        dict == Pick([i \in 1..Len(records) |->
                        records[Max({ j \in 1..Len(records) :
                                        records[j].path = records[i].path })]],
                     LAMBDA i : \A j \in 1..(i - 1) : records[j].path # records[i].path)
        added == Pick(manual,
                      LAMBDA i : /\ manual[i].path \notin auto
                                 /\ \A j \in 1..(i - 1) : manual[j].path # manual[i].path)
    IN  SortBy(dict \o added, RecordPath)

(***************************************************************************)
(* RecordBuilder (folders)                                                 *)
(***************************************************************************)

\* The value the loop of read_folder_purpose leaves in `summary`: that of
\* the first line that is neither blank nor comment-prefixed and gives a
\* non-empty summary, "" if there is none.
FolderSummary(lines) ==
    LET Value(raw) ==
            LET whole == normalize_summary(raw)
                match == PURPOSE_RE(whole)
            IN  IF match.matched THEN normalize_summary(match.group) ELSE whole
        found == { i \in 1..Len(lines) :
                     /\ Strip(lines[i]) # <<>>
                     /\ \A prefix \in PURPOSE_COMMENT_PREFIXES :
                            ~StartsWith(Strip(lines[i]), prefix)
                     /\ Value(lines[i]) # <<>> }
    IN  IF found = {} THEN <<>> ELSE Value(lines[Min(found)])

read_folder_purpose(folder_path, fs, config) ==
    LET purpose_path == folder_path \o <<config.purpose_filename>>
    IN  IF ~Exists(fs, purpose_path)
        THEN Extraction(None, <<"missing .purpose file">>)
        ELSE The({ IF summary = <<>>
                   THEN Extraction(Some(<<>>), <<"missing Purpose summary">>)
                   ELSE Extraction(Some(summary), validate_summary(summary, config)) :
                     summary \in { FolderSummary(splitlines(fs.files[purpose_path])) } })

\* A variant of FolderRecord: a folder with any issue counts as missing.
FolderRecordMissingOnly(rel, purpose) ==
        IF purpose.issues # <<>>
        THEN [record |-> Record(rel, MISSING, "missing"),
              list |-> "missing", issues |-> <<>>]
        ELSE [record |-> Record(rel, purpose.summary.text, "purpose"),
              list |-> "none", issues |-> <<>>]

\* One iteration of the loop of build_folder_records, from the result
\* `purpose` of read_folder_purpose on.
FolderRecord(rel, purpose) ==
        IF purpose.issues # <<>>
        THEN IF \E i \in 1..Len(purpose.issues) : purpose.issues[i] = "missing .purpose file"
             THEN [record |-> Record(rel, MISSING, "missing"),
                   list |-> "missing", issues |-> <<>>]
             ELSE [record |-> Record(rel, INVALID, "invalid"),
                   list |-> "invalid", issues |-> purpose.issues]
        ELSE [record |-> Record(rel, purpose.summary.text, "purpose"),
              list |-> "none", issues |-> <<>>]

FolderOutcome(folder_path, fs, config) ==
    The({ FolderRecord(AsPosix(folder_path), purpose) :
            purpose \in { read_folder_purpose(folder_path, fs, config) } })

\* The result when read_text raises in read_folder_purpose: the exception
\* leaves build_folder_records, and nothing is returned.
FolderRecordsRaised == [records |-> <<>>, missing |-> <<>>, invalid |-> <<>>, raised |-> TRUE]

build_folder_records(folders, fs, config) ==
    IF \E i \in 1..Len(folders) :
           /\ Exists(fs, folders[i] \o <<config.purpose_filename>>)
           /\ ReadTextRaises(fs, folders[i] \o <<config.purpose_filename>>)
    THEN FolderRecordsRaised
    ELSE The({ Collect(outcomes) :
                 outcomes \in { [i \in 1..Len(folders) |->
                                    FolderOutcome(folders[i], fs, config)] } })

\* " " * n
RECURSIVE Spaces(_)
Spaces(n) == IF n = 0 THEN <<>> ELSE <<" ">> \o Spaces(n - 1)

\* summaries is the dict {record.path: record.summary} of the folder records.
build_folder_tree_with_summaries(folders, summaries, config) ==
    LET rel_paths == SortBy([i \in 1..Len(folders) |-> AsPosix(folders[i])], LAMBDA s : s)
        Entry(rel) ==
            LET summary == IF rel \in DOMAIN summaries THEN summaries[rel] ELSE MISSING
                parts == Split(rel, "/")
            IN  IF rel = <<".">> THEN <<".", " ", "-", " ">> \o summary
                ELSE Spaces(2 * Count(rel, "/")) \o parts[Len(parts)]
                         \o <<"/", " ", "-", " ">> \o summary
    IN  [i \in 1..Len(rel_paths) |-> Entry(rel_paths[i])]

\* The dict built from a record list: the summary of the last record of
\* each path.
SummaryMap(records) ==
    [rel \in { records[i].path : i \in 1..Len(records) } |->
        records[Max({ i \in 1..Len(records) : records[i].path = rel })].summary]

(***************************************************************************)
(* DuplicateDetector                                                       *)
(***************************************************************************)

\* A variant of build_summary_duplicates: the MISSING and INVALID records
\* are grouped like the others.
build_summary_duplicates_of_all(records) ==
    LET summaries == { records[i].summary : i \in 1..Len(records) }
        Paths(summary) ==
            LET group == Pick(records, LAMBDA i : records[i].summary = summary)
            IN  SortBy([i \in 1..Len(group) |-> group[i].path], LAMBDA s : s)
        sorted == CHOOSE seq \in SortedStrings(summaries) : TRUE
        repeated == Pick(sorted, LAMBDA i : Len(Paths(sorted[i])) > 1)
    IN  [i \in 1..Len(repeated) |->
            repeated[i] \o <<" ", ":", ":", " ">> \o Join(Paths(repeated[i]), <<" ", "|", " ">>)]

build_summary_duplicates(records) ==
    LET kept == Pick(records, LAMBDA i : records[i].summary \notin {MISSING, INVALID})
        summaries == { kept[i].summary : i \in 1..Len(kept) }
        Paths(summary) ==
            LET group == Pick(kept, LAMBDA i : kept[i].summary = summary)
            IN  SortBy([i \in 1..Len(group) |-> group[i].path], LAMBDA s : s)
        sorted == CHOOSE seq \in SortedStrings(summaries) : TRUE
        repeated == Pick(sorted, LAMBDA i : Len(Paths(sorted[i])) > 1)
    IN  [i \in 1..Len(repeated) |->
            repeated[i] \o <<" ", ":", ":", " ">> \o Join(Paths(repeated[i]), <<" ", "|", " ">>)]

(***************************************************************************)
(* Fingerprinter                                                           *)
(***************************************************************************)

\* hashlib.sha256(payload).hexdigest(), taken to be collision-free: the
\* digest of a payload is the payload written in digest characters, which
\* differ from every character of a text.
sha256(payload) == <<"x">> \o [i \in 1..Len(payload) |-> "x" \o payload[i]]

FilePayload(records) ==
    Join([i \in 1..Len(records) |-> records[i].path \o <<"|">> \o records[i].summary],
         <<"\n">>)

compute_file_hash(records) == sha256(FilePayload(records))

\* A variant of FolderPayload: the first path only.
FolderPayloadFirstOnly(paths) == IF paths = <<>> THEN <<>> ELSE AsPosix(paths[1])

FolderPayload(paths) == Join([i \in 1..Len(paths) |-> AsPosix(paths[i])], <<"\n">>)

compute_folder_hash(paths, config) == sha256(FolderPayload(paths))

(***************************************************************************)
(* Overview                                                                *)
(***************************************************************************)

KeyTrackedFiles == <<"t", "r", "a", "c", "k", "e", "d", "_", "f", "i", "l", "e", "s">>
KeyTrackedFolders ==
    <<"t", "r", "a", "c", "k", "e", "d", "_", "f", "o", "l", "d", "e", "r", "s">>
KeySourceExtensions ==
    <<"s", "o", "u", "r", "c", "e", "_", "e", "x", "t", "e", "n", "s", "i", "o", "n", "s">>
KeyExcludeDirNames ==
    <<"e", "x", "c", "l", "u", "d", "e", "_", "d", "i", "r", "_", "n", "a", "m", "e", "s">>
KeyExcludePathPrefixes ==
    <<"e", "x", "c", "l", "u", "d", "e", "_", "p", "a", "t", "h", "_",
      "p", "r", "e", "f", "i", "x", "e", "s">>

OVERVIEW_KEY_ORDER ==
    << KeyTrackedFiles, KeyTrackedFolders, KeySourceExtensions,
       KeyExcludeDirNames, KeyExcludePathPrefixes >>

compute_overview(folders, files, config) ==
    [key \in Range(OVERVIEW_KEY_ORDER) |->
        CASE key = KeyTrackedFiles -> Len(files)
          [] key = KeyTrackedFolders -> Len(folders)
          [] key = KeySourceExtensions -> Cardinality(config.source_extensions)
          [] key = KeyExcludeDirNames -> Cardinality(config.exclude_dir_names)
          [] key = KeyExcludePathPrefixes -> Cardinality(config.exclude_path_prefixes)]

OverviewTag == <<"o", "v", "e", "r", "v", "i", "e", "w", ":">>

format_overview(overview) ==
    OverviewTag \o <<" ">>
        \o Join([i \in 1..Len(OVERVIEW_KEY_ORDER) |->
                    OVERVIEW_KEY_ORDER[i] \o <<"=">> \o ToDecimal(overview[OVERVIEW_KEY_ORDER[i]])],
                <<" ">>)

(***************************************************************************)
(* Serializer (output.py) and the readers of the map file                  *)
(***************************************************************************)

\* The text of Record.source
SourceText(source) ==
    CASE source = "header" -> <<"h", "e", "a", "d", "e", "r">>
      [] source = "manual" -> <<"m", "a", "n", "u", "a", "l">>
      [] source = "purpose" -> <<"p", "u", "r", "p", "o", "s", "e">>
      [] source = "missing" -> <<"m", "i", "s", "s", "i", "n", "g">>
      [] source = "invalid" -> <<"i", "n", "v", "a", "l", "i", "d">>

FileHashTag == <<"f", "i", "l", "e", "_", "h", "a", "s", "h", ":">>
FolderHashTag == <<"f", "o", "l", "d", "e", "r", "_", "h", "a", "s", "h", ":">>
RecordColumns ==
    <<"]", "{", "p", "a", "t", "h", ",", "s", "u", "m", "m", "a", "r", "y", ",",
      "s", "o", "u", "r", "c", "e", "}", ":">>
Bullet == <<" ", " ", "-", " ">>

\* sorted(a set of strings)
SortedSet(strings) == CHOOSE seq \in SortedStrings(strings) : TRUE

Bulleted(items) == [i \in 1..Len(items) |-> Bullet \o items[i]]

RecordLines(records) ==
    [i \in 1..Len(records) |->
        <<" ", " ">> \o records[i].path \o <<",">> \o records[i].summary
            \o <<",">> \o SourceText(records[i].source)]

\* The lines of to_toon; the text written is these lines, each ended by
\* a newline.
ToonLines(snapshot, config) ==
    << <<"v", "e", "r", "s", "i", "o", "n", ":", " ", "1">>,
       <<"g", "e", "n", "e", "r", "a", "t", "e", "d", "_", "a", "t", ":", " ">>
           \o snapshot.generated_at,
       FileHashTag \o <<" ", "\"">> \o snapshot.file_hash \o <<"\"">>,
       FolderHashTag \o <<" ", "\"">> \o snapshot.folder_hash \o <<"\"">>,
       <<"r", "o", "o", "t", ":", " ", ".">>,
       format_overview(snapshot.overview),
       KeySourceExtensions \o <<"[", "]", ":">> >>
    \o Bulleted(SortedSet(config.source_extensions))
    \o << KeyExcludeDirNames \o <<"[", "]", ":">> >>
    \o Bulleted(SortedSet(config.exclude_dir_names))
    \o << KeyExcludePathPrefixes \o <<"[", "]", ":">> >>
    \o Bulleted(SortedSet(config.exclude_path_prefixes))
    \o << FoldersHeader \o ToDecimal(Len(snapshot.folder_records)) \o RecordColumns >>
    \o RecordLines(snapshot.folder_records)
    \o << FilesHeader \o ToDecimal(Len(snapshot.file_records)) \o RecordColumns >>
    \o RecordLines(snapshot.file_records)
    \o << <<"f", "o", "l", "d", "e", "r", "_", "s", "u", "m", "m", "a", "r", "y", "_",
            "d", "u", "p", "l", "i", "c", "a", "t", "e", "s", "[", "]", ":">> >>
    \o Bulleted(snapshot.folder_duplicates)
    \o << <<"f", "i", "l", "e", "_", "s", "u", "m", "m", "a", "r", "y", "_",
            "d", "u", "p", "l", "i", "c", "a", "t", "e", "s", "[", "]", ":">> >>
    \o Bulleted(snapshot.file_duplicates)
    \o << <<"f", "o", "l", "d", "e", "r", "_", "t", "r", "e", "e", "[", "]", ":">> >>
    \o Bulleted(snapshot.folder_tree)

to_toon(snapshot, config) == Join(ToonLines(snapshot, config), <<"\n">>) \o <<"\n">>

\* All the proper ancestors of a path below the root.
Ancestors(path) == { SubSeq(path, 1, n) : n \in 1..(Len(path) - 1) }

\* write_toon: mkdir(parents=True, exist_ok=True) of the map's directory,
\* then write_text. The result is the new file system.
write_toon(snapshot, fs, config) ==
    [ dirs |-> fs.dirs \cup Ancestors(config.map_path),
      files |-> [p \in DOMAIN fs.files \cup {config.map_path} |->
                    IF p = config.map_path THEN to_toon(snapshot, config)
                    ELSE fs.files[p]] ]

\* The parse of the payload of an overview line, token by token: the
\* issue of the first bad token (or the ValueError that int(value) raises
\* on it), else the dict (a repeated key keeps its last value), which
\* must have all five keys.
ParseOverview(payload) ==
    LET tokens == SplitWhitespace(payload)
        Key(t) == SplitOnce(t, <<"=">>)[1]
        Value(t) == SplitOnce(t, <<"=">>)[2]
        Issue(t) ==
            IF ~Contains(t, <<"=">>) THEN "overview line is malformed"
            ELSE IF Key(t) \notin Range(OVERVIEW_KEY_ORDER)
            THEN "overview contains unknown keys"
            ELSE IF ~isdigit(Value(t)) THEN "overview values must be integers"
            ELSE IF IntRaises(Value(t)) THEN "ValueError"
            ELSE "ok"
        bad == { i \in 1..Len(tokens) : Issue(tokens[i]) # "ok" }
        keys == { Key(tokens[i]) : i \in 1..Len(tokens) }
    IN  IF bad # {} /\ Issue(tokens[Min(bad)]) = "ValueError"
        THEN [has |-> FALSE, overview |-> <<>>, issues |-> <<>>, raised |-> TRUE]
        ELSE IF bad # {}
        THEN [has |-> FALSE, overview |-> <<>>, issues |-> <<Issue(tokens[Min(bad)])>>,
              raised |-> FALSE]
        ELSE IF \E key \in Range(OVERVIEW_KEY_ORDER) : key \notin keys
        THEN [has |-> FALSE, overview |-> <<>>,
              issues |-> <<"overview is missing required keys">>, raised |-> FALSE]
        ELSE [has |-> TRUE,
              overview |-> [key \in keys |->
                  ParseInt(Value(tokens[Max({ i \in 1..Len(tokens) :
                                                Key(tokens[i]) = key })]))],
              issues |-> <<>>, raised |-> FALSE]

\* read_overview, from the lines of the map on: the first line that
\* starts with the tag decides.
OverviewOf(lines) ==
    LET found == { i \in 1..Len(lines) : StartsWith(Strip(lines[i]), OverviewTag) }
        payload == Strip(SplitOnce(Strip(lines[Min(found)]), <<":">>)[2])
    IN  IF found = {}
        THEN [has |-> FALSE, overview |-> <<>>, issues |-> <<"overview line is missing">>,
              raised |-> FALSE]
        ELSE IF payload = <<>>
        THEN [has |-> FALSE, overview |-> <<>>, issues |-> <<"overview line is empty">>,
              raised |-> FALSE]
        ELSE ParseOverview(payload)

read_overview(fs, map_path) ==
    IF ~Exists(fs, map_path)
    THEN [has |-> FALSE, overview |-> <<>>, issues |-> <<"atlas map is missing">>,
          raised |-> FALSE]
    ELSE The({ OverviewOf(lines) : lines \in { splitlines(fs.files[map_path]) } })

\* The value read_map_hashes keeps for a tag: that of the last line that
\* starts with the tag, None if there is no such line.
LastTagged(lines, tag) ==
    LET found == { i \in 1..Len(lines) : StartsWith(Strip(lines[i]), tag) }
    IN  IF found = {} THEN None
        ELSE Some(StripChar(Strip(SplitOnce(Strip(lines[Max(found)]), <<":">>)[2]), "\""))

read_map_hashes(fs, map_path) ==
    IF ~Exists(fs, map_path) THEN [file_hash |-> None, folder_hash |-> None]
    ELSE The({ [ file_hash |-> LastTagged(lines, FileHashTag),
                 folder_hash |-> LastTagged(lines, FolderHashTag) ] :
               lines \in { splitlines(fs.files[map_path]) } })

(***************************************************************************)
(* Command-line entry points (cli.py)                                      *)
(***************************************************************************)

TRUTHY_ENV == { <<"1">>, <<"t", "r", "u", "e">>, <<"y", "e", "s">>, <<"o", "n">> }

\* value is None or Some(text), as os.getenv returns it.
is_truthy_env(value) == value.has /\ Lower(Strip(value.text)) \in TRUTHY_ENV

\* A variant of FileRecordsOf: the manual records in place of the merge.
FileRecordsOfManualOnly(files, manual) ==
    IF manual.records # <<>> THEN manual.records ELSE files.records

\* The file records both build_snapshot and run_lint go on with, from the
\* results of build_file_records and read_manual_file_entries: merged with
\* the manual records when there are any.
FileRecordsOf(files, manual) ==
    IF manual.records # <<>>
    THEN merge_manual_file_records(files.records, manual.records)
    ELSE files.records

MergedFileRecords(files, fs, config) ==
    The({ FileRecordsOf(built, manual) :
            built \in { build_file_records(files, fs, config) },
            manual \in { read_manual_file_entries(fs, config) } })

\* A variant of build_snapshot: the folder hash taken over the folder
\* records (path and summary) instead of the folder paths.
build_snapshot_hashing_summaries(fs, config, walk, generated_at) ==
    The({ [ folder_records |-> folder_records,
            file_records |-> file_records,
            folder_tree |-> The({ build_folder_tree_with_summaries(
                                      walk.folders, folder_summary_map, config) :
                                  folder_summary_map \in {SummaryMap(folder_records)} }),
            folder_duplicates |-> build_summary_duplicates(folder_records),
            file_duplicates |-> build_summary_duplicates(file_records),
            file_hash |-> compute_file_hash(file_records),
            folder_hash |-> compute_file_hash(folder_records),
            generated_at |-> generated_at,
            overview |-> compute_overview(walk.folders, walk.files, config) ] :
          file_records \in { MergedFileRecords(walk.files, fs, config) },
          folder_records \in { build_folder_records(walk.folders, fs, config).records } })

\* build_snapshot, for one result `walk` of iter_repo_paths and one
\* reading of the clock.
build_snapshot(fs, config, walk, generated_at) ==
    The({ [ folder_records |-> folder_records,
            file_records |-> file_records,
            folder_tree |-> The({ build_folder_tree_with_summaries(
                                      walk.folders, folder_summary_map, config) :
                                  folder_summary_map \in {SummaryMap(folder_records)} }),
            folder_duplicates |-> build_summary_duplicates(folder_records),
            file_duplicates |-> build_summary_duplicates(file_records),
            file_hash |-> compute_file_hash(file_records),
            folder_hash |-> compute_folder_hash(walk.folders, config),
            generated_at |-> generated_at,
            overview |-> compute_overview(walk.folders, walk.files, config) ] :
          file_records \in { MergedFileRecords(walk.files, fs, config) },
          folder_records \in { build_folder_records(walk.folders, fs, config).records } })

\* The classification loop of run_lint over the untracked files.
UntrackedReport(untracked_files, manual_paths, config) ==
    LET Class(path) ==
            IF AsPosix(path) \in manual_paths THEN "allowed"
            ELSE IF /\ is_asset_file(path, config)
                    /\ ~is_under_prefix(AsPosix(path), config.asset_allowed_prefixes)
            THEN "asset"
            ELSE IF is_allowed_untracked(path, config) THEN "allowed"
            ELSE "disallowed"
    IN  [ allowed_untracked |->
              Pick(untracked_files, LAMBDA i : Class(untracked_files[i]) = "allowed"),
          disallowed_untracked |->
              Pick(untracked_files, LAMBDA i : Class(untracked_files[i]) # "allowed"),
          asset_outside_roots |->
              Pick(untracked_files, LAMBDA i : Class(untracked_files[i]) = "asset") ]

NoReport ==
    [allowed_untracked |-> <<>>, disallowed_untracked |-> <<>>, asset_outside_roots |-> <<>>]

\* What run_lint derives from the repository alone, before the flags and
\* the environment are looked at, for one result `walk` of
\* iter_repo_paths_with_untracked.
LintFacts(fs, config, walk) ==
    The({ [ walk |-> walk, files |-> files, manual |-> manual, folders |-> folders,
            file_records |-> FileRecordsOf(files, manual),
            report |-> The({ UntrackedReport(walk.untracked_files, manual_paths, config) :
                             manual_paths \in
                                 { { manual.records[i].path : i \in 1..Len(manual.records) } } }),
            map_overview |-> read_overview(fs, config.map_path),
            expected_overview |-> compute_overview(walk.folders, walk.files, config),
            map_hashes |-> read_map_hashes(fs, config.map_path),
            expected_file_hash |-> compute_file_hash(FileRecordsOf(files, manual)),
            expected_folder_hash |-> compute_folder_hash(walk.folders, config) ] :
          files \in { build_file_records(walk.files, fs, config) },
          manual \in { read_manual_file_entries(fs, config) },
          folders \in { build_folder_records(walk.folders, fs, config) } })

\* errors.append(headline) under a condition
When(cond, headline) == IF cond THEN <<headline>> ELSE <<>>

\* The comparison of the overview of the map with the computed one.
OverviewErrors(facts) ==
    IF ~facts.map_overview.has
    THEN <<"Atlas map missing overview. Run: projectatlas map">>
    ELSE IF facts.map_overview.issues # <<>>
    THEN <<"Atlas map overview invalid. Run: projectatlas map">>
    ELSE When(facts.map_overview.overview # facts.expected_overview,
              "Atlas map overview stale. Run: projectatlas map")

\* A variant of HashErrors: the folder hash is compared only when the
\* file hash is up to date.
HashErrorsChained(facts) ==
    IF ~facts.map_hashes.file_hash.has \/ ~facts.map_hashes.folder_hash.has
    THEN <<"Atlas map missing hashes. Run: projectatlas map">>
    ELSE IF facts.map_hashes.file_hash.text # facts.expected_file_hash
    THEN <<"Atlas map file hash stale. Run: projectatlas map">>
    ELSE When(facts.map_hashes.folder_hash.text # facts.expected_folder_hash,
              "Atlas map folder hash stale. Run: projectatlas map")

\* The comparison of the hashes of the map with the computed ones.
HashErrors(facts) ==
    IF ~facts.map_hashes.file_hash.has \/ ~facts.map_hashes.folder_hash.has
    THEN <<"Atlas map missing hashes. Run: projectatlas map">>
    ELSE When(facts.map_hashes.file_hash.text # facts.expected_file_hash,
              "Atlas map file hash stale. Run: projectatlas map")
         \o When(facts.map_hashes.folder_hash.text # facts.expected_folder_hash,
                 "Atlas map folder hash stale. Run: projectatlas map")

\* flags: strict_folders, report_untracked, strict_untracked;
\* env: the values of CI and PROJECTATLAS_ALLOW_UNTRACKED.
\* The result: the return code, the headlines appended to `errors`, and
\* the lists the report is written from. When read_overview raises, the
\* exception leaves run_lint before `errors` is written: the interpreter
\* prints the traceback and exits with status 1.
LintOutcome(facts, flags, env) ==
    LET enforce_flag ==
            IF flags.report_untracked /\ ~flags.strict_untracked
            THEN ~is_truthy_env(env.CI)
            ELSE flags.strict_untracked
        enforce_untracked ==
            IF is_truthy_env(env.PROJECTATLAS_ALLOW_UNTRACKED) THEN FALSE ELSE enforce_flag
        report == IF flags.report_untracked THEN facts.report ELSE NoReport
        errors ==
            When(facts.manual.errors # <<>>, "Manual file list errors:")
            \o When(facts.manual.missing # <<>>, "Missing manual file entries:")
            \o When(DOMAIN facts.manual.invalid # {}, "Invalid manual file summaries:")
            \o When(facts.files.missing # <<>>, "Missing Purpose headers:")
            \o When(DOMAIN facts.files.invalid # {}, "Invalid Purpose headers:")
            \o When(DOMAIN facts.folders.invalid # {}, "Invalid folder Purpose summaries:")
            \o When(flags.strict_folders /\ facts.folders.missing # <<>>,
                    "Missing folder Purpose files:")
            \o When(/\ flags.report_untracked /\ enforce_untracked
                    /\ report.disallowed_untracked # <<>>,
                    "Untracked files detected.")
            \o OverviewErrors(facts)
            \o HashErrors(facts)
        raised == facts.map_overview.raised
    IN  [ code |-> IF raised \/ errors # <<>> THEN 1 ELSE 0,
          errors |-> IF raised THEN <<>> ELSE errors,
          raised |-> raised,
          missing_headers |-> facts.files.missing,
          invalid_headers |-> facts.files.invalid,
          missing_folders |-> facts.folders.missing,
          invalid_folders |-> facts.folders.invalid,
          report |-> report,
          excluded_paths |-> facts.walk.excluded_paths ]

\* The possible results of run_lint (one per listing order).
run_lint(fs, config, flags, env) ==
    { LintOutcome(facts, flags, env) :
        facts \in { LintFacts(fs, config, walk) :
                      walk \in iter_repo_paths_with_untracked(fs, config) } }

\* f"# path: {rel}\n"
SeedText(rel) == <<"#", " ", "p", "a", "t", "h", ":", " ">> \o rel \o <<"\n">>

\* The possible file systems after seed_purpose_files (one per listing
\* order).
seed_purpose_files(fs, config) ==
    { The({ [fs EXCEPT !.files =
                [path \in { folder \o <<config.purpose_filename>> : folder \in lacking } |->
                    SeedText(AsPosix(Parent(path)))] @@ fs.files] :
            lacking \in { { folder \in Range(walk.folders) :
                              ~Exists(fs, folder \o <<config.purpose_filename>>) } } }) :
        walk \in iter_repo_paths(fs, config) }

\* The possible file systems after run_map (one per listing order).
run_map(fs, config, env, generated_at) ==
    IF is_truthy_env(env.PROJECTATLAS_SKIP_UPDATE) THEN {fs}
    ELSE { write_toon(snapshot, fs, config) :
             snapshot \in { build_snapshot(fs, config, walk, generated_at) :
                              walk \in iter_repo_paths(fs, config) } }

(***************************************************************************)
(* The repositories and configurations explored                            *)
(***************************************************************************)

\* File content: the text whose lines are `lines`, each ended by a newline.
Text(lines) == IF lines = <<>> THEN <<>> ELSE Join(lines, <<"\n">>) \o <<"\n">>

LineBlank == <<>>
LineQuotes == <<"\"", "\"", "\"">>
LinePurpose == <<"P", "u", "r", "p", "o", "s", "e", ":", " ", " ", "A", "b", " ", " ", "c", " ">>
LineQuotesPurpose == <<"\"", "\"", "\"", "P", "u", "r", "p", "o", "s", "e", ":", " ", "A", "b">>
LineOneLineDocstring ==
    <<"\"", "\"", "\"", "P", "u", "r", "p", "o", "s", "e", ":", " ", "A", "b", "\"", "\"", "\"">>
LinePurposeComma == <<"P", "u", "r", "p", "o", "s", "e", ":", " ", "a", ",", "b">>
LinePurposeSentinel ==
    <<"P", "u", "r", "p", "o", "s", "e", ":", " ", "M", "I", "S", "S", "I", "N", "G">>
LineComment == <<"#", " ", "c">>
LineCode == <<"x", " ", "=", " ", "1">>
LineJavadocOpen == <<"/", "*", "*">>
LineStarPurpose ==
    <<" ", "*", " ", "P", "u", "r", "p", "o", "s", "e", ":", " ", " ", "A", "b", " ", " ", "c", " ">>
LineStarPurposeClose ==
    <<" ", "*", " ", "P", "u", "r", "p", "o", "s", "e", ":", " ", "A", "b", " ", "*", "/">>
LineJavadocClose == <<" ", "*", "/">>
LineOneLineJavadoc ==
    <<"/", "*", "*", " ", "P", "u", "r", "p", "o", "s", "e", ":", " ", "A", "b", " ", "*", "/">>
LineShebang == <<"#", "!", "s", "h">>
LineScript == <<"<", "s", "c", "r", "i", "p", "t", ">">>
LineScriptEnd == <<"<", "/", "s", "c", "r", "i", "p", "t", ">">>
LineStyle == <<"<", "s", "t", "y", "l", "e", ">">>
LineStyleEnd == <<"<", "/", "s", "t", "y", "l", "e", ">">>

NameAPy == <<"a", ".", "p", "y">>
NameBJs == <<"b", ".", "j", "s">>
NameCVue == <<"c", ".", "v", "u", "e">>
NamePurpose == <<".", "p", "u", "r", "p", "o", "s", "e">>
NameGit == <<".", "g", "i", "t">>
NameAtlasDir == <<".", "p", "r", "o", "j", "e", "c", "t", "a", "t", "l", "a", "s">>
NameAtlas == <<"a", "t", "l", "a", "s", ".", "t", "o", "o", "n">>
JsExt == <<".", "j", "s">>

NameEPy == <<"e", ".", "p", "y">>
NameManual == <<"m", "a", "n", "u", "a", "l", ".", "t", "o", "o", "n">>
NameNotes == <<"n", ".", "t", "x", "t">>
NameD == <<"d">>

LineManualHeader ==
    <<"m", "a", "n", "u", "a", "l", "_", "f", "i", "l", "e", "s", "[", "]", ":">>
LineManualAPy == <<" ", " ", "a", ".", "p", "y", ",", " ", "M", "n">>
LineManualNotes == <<" ", " ", "n", ".", "t", "x", "t", ",", " ", "M", "n">>

\* Two readings of the clock, as strftime("%Y-%m-%dT%H:%M:%SZ") prints them.
StampOne ==
    <<"2", "0", "2", "6", "-", "0", "1", "-", "0", "1", "T",
      "0", "0", ":", "0", "0", ":", "0", "0", "Z">>
StampTwo ==
    <<"2", "0", "2", "6", "-", "0", "1", "-", "0", "2", "T",
      "0", "0", ":", "0", "0", ":", "0", "0", "Z">>
Clock == {StampOne, StampTwo}

\* The lines a file of each dialect is made of.
PyLines ==
    { LineQuotes, LinePurpose, LineQuotesPurpose, LineOneLineDocstring,
      LinePurposeComma, LinePurposeSentinel, LineComment, LineCode }

JsLines ==
    { LineJavadocOpen, LineStarPurpose, LineJavadocClose, LineOneLineJavadoc,
      LinePurposeComma, LinePurposeSentinel, LineShebang, LineBlank, LineCode }

VueLines ==
    { LineScript, LineScriptEnd, LineStyle, LineStyleEnd,
      LineJavadocOpen, LineStarPurposeClose }

\* The longest file, in lines, of the module and Javadoc dialects, and of
\* the template dialect (whose header needs two more lines for its tags).
MaxLines == 3
MaxVueLines == 4

\* All the sequences over `pool` of length at most n.
SeqsUpTo(pool, n) == UNION { [1..k -> pool] : k \in 0..n }

\* A configuration in the shape of a loaded AtlasConfig: the map under
\* .projectatlas, no manual list, the marker file .purpose, the limits
\* DEFAULT_MAX_SCAN_LINES and DEFAULT_SUMMARY_MAX_LENGTH.
DefaultConfig ==
    [ map_path |-> <<NameAtlasDir, NameAtlas>>,
      manual_files_path |-> None,
      purpose_filename |-> NamePurpose,
      source_extensions |-> {PyExt, JsExt, VueExt},
      exclude_dir_names |-> {NameGit, NameAtlasDir},
      exclude_dir_suffixes |-> {},
      exclude_path_prefixes |-> {},
      non_source_path_prefixes |-> {},
      allowed_untracked_filenames |-> {NamePurpose},
      untracked_allowlist_dir_prefixes |-> {},
      untracked_allowlist_files |-> {},
      asset_allowed_prefixes |-> {},
      asset_extensions |-> {},
      max_scan_lines |-> 80,
      summary_max_length |-> 140,
      summary_ascii_only |-> TRUE,
      summary_no_commas |-> TRUE ]

(***************************************************************************)
(* State                                                                   *)
(***************************************************************************)

VARIABLES
    fs,      \* the repository: [dirs, files]
    config,  \* the loaded configuration
    out,     \* what the last operation returned: [op, val]
    synced   \* run_map wrote the map and the repository has not changed since

vars == <<fs, config, out, synced>>

NoOutcome == [op |-> "none", val |-> <<>>]

(***************************************************************************)
(* Record building over one tracked file of each dialect                   *)
(***************************************************************************)

\* The single-file repositories: one file of one dialect at the root.
OneFile(name, lines) == [dirs |-> {}, files |-> (<<name>> :> Text(lines))]

InitExtract ==
    /\ \/ \E lines \in SeqsUpTo(PyLines, MaxLines) : fs = OneFile(NameAPy, lines)
       \/ \E lines \in SeqsUpTo(JsLines, MaxLines) : fs = OneFile(NameBJs, lines)
       \/ \E lines \in SeqsUpTo(VueLines, MaxVueLines) : fs = OneFile(NameCVue, lines)
    /\ \E scan \in {2, 80} : config = [DefaultConfig EXCEPT !.max_scan_lines = scan]
    /\ out = NoOutcome
    /\ synced = FALSE

\* The record-building calls that open both build_snapshot and run_lint.
BuildRecords ==
    /\ out.op = "none"
    /\ \E walk \in iter_repo_paths(fs, config) :
           out' = [ op |-> "records",
                    val |-> [ walk |-> walk,
                              files |-> build_file_records(walk.files, fs, config),
                              manual |-> read_manual_file_entries(fs, config),
                              folders |-> build_folder_records(walk.folders, fs, config),
                              merged |-> MergedFileRecords(walk.files, fs, config) ] ]
    /\ UNCHANGED <<fs, config, synced>>

NextExtract == BuildRecords

SpecExtract == InitExtract /\ [][NextExtract]_vars

(***************************************************************************)
(* Headers, as the dialects delimit them (claims C1 to C3)                 *)
(***************************************************************************)

NoBlock == [has |-> FALSE, lines |-> <<>>]
Block(lines) == [has |-> TRUE, lines |-> lines]

\* Module dialect: the lines the interpreter line, comment, encoding
\* and blank lines leave over.
ModuleContent(lines) ==
    { i \in 1..Len(lines) :
        LET line == Strip(lines[i])
        IN  ~(\/ StartsWith(line, Shebang) \/ PY_CODING_RE(line)
              \/ line = <<>> \/ StartsWith(line, <<"#">>)) }

\* Javadoc dialect: the non-blank lines after an interpreter line.
JavadocContent(lines) ==
    { i \in (IF lines # <<>> /\ StartsWith(lines[1], Shebang) THEN 2 ELSE 1)..Len(lines) :
        Strip(lines[i]) # <<>> }

\* The text of a well-formed module docstring: what stands between the
\* opening triple quote and the next occurrence of the same delimiter,
\* on the opening line or on a later line within the scan bound.
DocstringBlock(lines, max_scan_lines) ==
    LET content == ModuleContent(lines)
        idx == Min(content)
        start == PY_DOCSTRING_START_RE(Strip(lines[idx]))
        opened == From(Strip(lines[idx]), start.end + 1)
        HasDelimiter(line) == Contains(line, start.delimiter)
        close == ClosingLine(lines, idx, max_scan_lines, HasDelimiter)
    IN  IF content = {} THEN NoBlock
        ELSE IF ~start.matched THEN NoBlock
        ELSE IF HasDelimiter(opened) THEN Block(<<SplitOnce(opened, start.delimiter)[1]>>)
        ELSE IF close = 0 THEN NoBlock
        ELSE Block(<<opened>> \o SubSeq(lines, idx + 1, close - 1)
                       \o <<SplitOnce(lines[close], start.delimiter)[1]>>)

\* The lines of a well-formed Javadoc block: from the line that opens it
\* to the first line that closes it (the opening line itself when the
\* close marker follows the opener there), within the scan bound.
JavadocBlock(lines, max_scan_lines) ==
    LET content == JavadocContent(lines)
        idx == Min(content)
        close == ClosingLine(lines, idx, max_scan_lines, JAVADOC_END_RE)
    IN  IF content = {} THEN NoBlock
        ELSE IF ~JAVADOC_START_RE(lines[idx]) THEN NoBlock
        ELSE IF JAVADOC_END_RE(From(LStrip(lines[idx]), Len(JavadocOpen) + 1))
        THEN Block(<<lines[idx]>>)
        ELSE IF close = 0 THEN NoBlock
        ELSE Block(SubSeq(lines, idx, close))

\* The tag whose block the template dialect examines: the first script
\* tag, else the first style tag; <<>> when the file has neither.
TemplateTag(lines) ==
    IF \E i \in 1..Len(lines) : VueOpenTag(ScriptTag, lines[i]) THEN ScriptTag
    ELSE IF \E i \in 1..Len(lines) : VueOpenTag(StyleTag, lines[i]) THEN StyleTag
    ELSE <<>>

\* The Javadoc block of the lines a closed <script>/<style> block encloses.
TemplateBlock(lines, max_scan_lines) ==
    LET tag == TemplateTag(lines)
        start == Min({ i \in 1..Len(lines) : VueOpenTag(tag, lines[i]) })
        ends == { i \in (start + 1)..Len(lines) : VueCloseTag(tag, lines[i]) }
    IN  IF tag = <<>> THEN NoBlock
        ELSE IF ends = {} THEN NoBlock
        ELSE JavadocBlock(SubSeq(lines, start + 1, Min(ends) - 1), max_scan_lines)

HeaderBlock(path, files, max_scan_lines) ==
    LET lines == splitlines(files[path])
    IN  IF file_extension(path) = PyExt THEN DocstringBlock(lines, max_scan_lines)
        ELSE IF file_extension(path) = VueExt THEN TemplateBlock(lines, max_scan_lines)
        ELSE JavadocBlock(lines, max_scan_lines)

\* The lines `Purpose: X` of a block (comment decoration aside), and the
\* X of the first of them.
PurposeLines(block) == { i \in 1..Len(block) : StartsWith(CleanLine(block[i]), PurposeTag) }

PurposeText(block) ==
    From(CleanLine(block[Min(PurposeLines(block))]), Len(PurposeTag) + 1)

\* A file with no recognizable header: no triple-quoted literal as the
\* first token (module dialect), no /** opener on the first non-blank line
\* after an optional interpreter line (Javadoc dialect), no script or
\* style tag (template dialect).
NoRecognizableHeader(path, files) ==
    LET lines == splitlines(files[path])
    IN  IF file_extension(path) = PyExt
        THEN \/ ModuleContent(lines) = {}
             \/ ~PY_DOCSTRING_START_RE(Strip(lines[Min(ModuleContent(lines))])).matched
        ELSE IF file_extension(path) = VueExt THEN TemplateTag(lines) = <<>>
        ELSE \/ JavadocContent(lines) = {}
             \/ ~JAVADOC_START_RE(lines[Min(JavadocContent(lines))])

\* The tracked files of the state whose records have been built.
BuiltFiles == IF out.op = "records" THEN 1..Len(out.val.walk.files) ELSE {}

\* C1: every tracked file, of any of the three dialects, whose header
\* block is well formed and has a line `Purpose: X` with normalize(X)
\* valid gets the record (path, normalize(X), header) and is in neither
\* the missing list nor the invalid map.
C1_WellFormedHeaderIsExtracted ==
    \A i \in BuiltFiles :
        LET path == out.val.walk.files[i]
            block == HeaderBlock(path, fs.files, config.max_scan_lines)
            X == PurposeText(block.lines)
        IN  ( /\ block.has
              /\ PurposeLines(block.lines) # {}
              /\ validate_summary(normalize_summary(X), config) = <<>> )
            => /\ out.val.files.records[i]
                      = Record(AsPosix(path), normalize_summary(X), "header")
               /\ AsPosix(path) \notin Range(out.val.files.missing)
               /\ AsPosix(path) \notin DOMAIN out.val.files.invalid

\* C2: every tracked file with no recognizable header gets the record
\* (path, MISSING, missing) and its path is in the missing list.
C2_NoHeaderIsMissing ==
    \A i \in BuiltFiles :
        LET path == out.val.walk.files[i]
        IN  NoRecognizableHeader(path, fs.files)
            => /\ out.val.files.records[i] = Record(AsPosix(path), MISSING, "missing")
               /\ AsPosix(path) \in Range(out.val.files.missing)
               /\ AsPosix(path) \notin DOMAIN out.val.files.invalid

\* A module-dialect file that has content (a Purpose line among it) but
\* no docstring has been given its record.
C2_Witness ==
    /\ out.op = "records"
    /\ \E i \in BuiltFiles :
           /\ NoRecognizableHeader(out.val.walk.files[i], fs.files)
           /\ fs.files[out.val.walk.files[i]] = Text(<<LineCode, LinePurpose>>)
           /\ out.val.files.records[i].source = "missing"

\* C3: a tracked file whose extraction yields no summary is classified
\* missing (record source missing, summary MISSING, path in the missing
\* list) when some issue tells of a structurally missing header, and
\* otherwise invalid: record source invalid, issues kept in the invalid map.
C3_NoSummaryClassification ==
    \A i \in BuiltFiles :
        LET path == out.val.walk.files[i]
            rel == AsPosix(path)
            header == extract_purpose_header(path, fs, config)
            record == out.val.files.records[i]
        IN  ~Truthy(header.summary)
            => IF \E k \in 1..Len(header.issues) : header.issues[k] \in MissingHeaderIssues
               THEN /\ record = Record(rel, MISSING, "missing")
                    /\ rel \in Range(out.val.files.missing)
               ELSE /\ record.source = "invalid"
                    /\ rel \in DOMAIN out.val.files.invalid
                    /\ out.val.files.invalid[rel] = header.issues

(***************************************************************************)
(* Sentinel summaries (claim C4)                                           *)
(***************************************************************************)

\* The four record lists of the state whose records have been built.
BuiltRecords ==
    IF out.op = "records"
    THEN Range(out.val.files.records) \cup Range(out.val.folders.records)
             \cup Range(out.val.manual.records) \cup Range(out.val.merged)
    ELSE {}

\* C4: in every record of the file records, the folder records, the
\* manual entries and the merged set, the summary is MISSING or INVALID
\* if and only if the source is missing or invalid.
C4_SentinelIffMissingOrInvalid ==
    \A record \in BuiltRecords :
        record.summary \in {MISSING, INVALID} <=> record.source \in {"missing", "invalid"}

(***************************************************************************)
(* Scans of a repository between which one thing changes                   *)
(***************************************************************************)

\* Source text with a valid header and without a header.
SourceWithHeader == Text(<<LineQuotes, LinePurpose, LineQuotes>>)
SourceNoHeader == Text(<<LineCode>>)

\* Marker text with a summary and without one.
MarkerPurpose == Text(<<LinePurpose>>)
MarkerComment == Text(<<LineComment>>)

\* Manual lists naming the source file a.py and the non-source file n.txt.
ManualNamesAPy == Text(<<LineManualHeader, LineManualAPy>>)
ManualNamesNotes == Text(<<LineManualHeader, LineManualNotes>>)

\* Text of a file that is no source file.
NotesCode == Text(<<LineCode>>)
NotesJavadoc == Text(<<LineJavadocOpen, LineStarPurpose, LineJavadocClose>>)

\* The files a repository can hold (all at the root) and what each holds.
RepoFiles == { <<NameAPy>>, <<NameEPy>>, <<NamePurpose>>, <<NameManual>>, <<NameNotes>> }

Contents(path) ==
    IF path \in { <<NameAPy>>, <<NameEPy>> }
    THEN {SourceWithHeader, SourceNoHeader}
    ELSE IF path = <<NamePurpose>> THEN {MarkerPurpose, MarkerComment}
    ELSE IF path = <<NameManual>> THEN {ManualNamesAPy, ManualNamesNotes}
    ELSE {NotesCode, NotesJavadoc}

\* The directories a repository can hold: a tracked and an excluded one.
RepoDirs == { <<NameD>>, <<NameGit>> }

\* The most files a repository holds.
MaxFiles == 3

Repos ==
    { [dirs |-> dirs, files |-> files] :
        dirs \in SUBSET RepoDirs,
        files \in UNION { { f \in [held -> UNION { Contents(p) : p \in RepoFiles }] :
                               \A p \in held : f[p] \in Contents(p) } :
                           held \in { h \in SUBSET RepoFiles : Cardinality(h) <= MaxFiles } } }

\* The configuration of these repositories: the manual list is manual.toon
\* at the root.
RepoConfig == [DefaultConfig EXCEPT !.manual_files_path = Some(<<NameManual>>)]

NoReference == [has |-> FALSE, repo |-> <<>>, file_hash |-> <<>>, folder_hash |-> <<>>]

InitRepo ==
    /\ fs \in Repos
    /\ config = RepoConfig
    /\ out = NoOutcome
    /\ synced = FALSE

\* build_snapshot runs; the outcome keeps, as its reference, the hashes
\* and the repository of the scan before the change, if there was one.
Scan ==
    /\ out.op \in {"none", "edited"}
    /\ \E walk \in iter_repo_paths(fs, config), generated_at \in Clock :
           out' = [ op |-> "snapshot",
                    val |-> [ repo |-> fs,
                              walk |-> walk,
                              snapshot |-> build_snapshot(fs, config, walk, generated_at),
                              reference |-> IF out.op = "edited" THEN out.val.reference
                                            ELSE NoReference ] ]
    /\ UNCHANGED <<fs, config, synced>>

\* The repository changes into `repo` after a scan, which becomes the
\* reference of the next scan.
ChangeInto(repo) ==
    /\ out.op = "snapshot"
    /\ repo \in Repos
    /\ fs' = repo
    /\ out' = [ op |-> "edited",
                val |-> [ reference |-> [ has |-> TRUE,
                                          repo |-> out.val.repo,
                                          file_hash |-> out.val.snapshot.file_hash,
                                          folder_hash |-> out.val.snapshot.folder_hash ] ] ]
    /\ UNCHANGED <<config, synced>>

Without(files, path) == [p \in DOMAIN files \ {path} |-> files[p]]

AddFile ==
    \E path \in RepoFiles \ DOMAIN fs.files : \E text \in Contents(path) :
        ChangeInto([fs EXCEPT !.files = (path :> text) @@ fs.files])

RemoveFile ==
    \E path \in DOMAIN fs.files :
        ChangeInto([fs EXCEPT !.files = Without(fs.files, path)])

RenameFile ==
    \E path \in DOMAIN fs.files : \E target \in RepoFiles \ DOMAIN fs.files :
        /\ fs.files[path] \in Contents(target)
        /\ ChangeInto([fs EXCEPT
                          !.files = (target :> fs.files[path]) @@ Without(fs.files, path)])

EditFile ==
    \E path \in DOMAIN fs.files : \E text \in Contents(path) \ {fs.files[path]} :
        ChangeInto([fs EXCEPT !.files = [fs.files EXCEPT ![path] = text]])

AddFolder ==
    \E dir \in RepoDirs \ fs.dirs : ChangeInto([fs EXCEPT !.dirs = fs.dirs \cup {dir}])

RemoveFolder ==
    \E dir \in fs.dirs : ChangeInto([fs EXCEPT !.dirs = fs.dirs \ {dir}])

NextRepo ==
    \/ Scan
    \/ AddFile
    \/ RemoveFile
    \/ RenameFile
    \/ EditFile
    \/ AddFolder
    \/ RemoveFolder

SpecRepo == InitRepo /\ [][NextRepo]_vars

(***************************************************************************)
(* Fingerprints (claims C5 to C8)                                          *)
(***************************************************************************)

\* C5: the file hash and the folder hash of a scan are those of every run
\* of the pipeline over the same repository and configuration, whatever
\* the order in which the traversal discovers directories and files and
\* whatever the time of the run.
C5_HashesAreDeterministic ==
    out.op = "snapshot" =>
        \A walk \in iter_repo_paths(fs, config) : \A generated_at \in Clock :
            LET again == build_snapshot(fs, config, walk, generated_at)
            IN  /\ again.file_hash = out.val.snapshot.file_hash
                /\ again.folder_hash = out.val.snapshot.folder_hash

\* A scan has hashed two tracked files, a manual entry and two tracked
\* folders, which the traversal can discover in either order.
C5_Witness ==
    /\ out.op = "snapshot"
    /\ Len(out.val.walk.files) = 2
    /\ Len(out.val.walk.folders) = 2
    /\ Len(out.val.snapshot.file_records) = 3
    /\ Cardinality(Orders(Collected(fs, config).files)) = 2

\* A scan whose reference is the scan before one change of the repository.
Compared == out.op = "snapshot" /\ out.val.reference.has

TrackedFiles(repo) == Collected(repo, config).files
TrackedFolders(repo) == Collected(repo, config).folders
UntrackedFiles(repo) == Collected(repo, config).untracked_files

\* The paths the manual list of the repository names.
ManualPaths(repo) == Range([i \in 1..Len(read_manual_file_entries(repo, config).records) |->
                              read_manual_file_entries(repo, config).records[i].path])

\* `after` is `before` with the tracked file `path` added, and nothing else.
TrackedFileAdded(before, after, path) ==
    /\ path \notin DOMAIN before.files
    /\ path \in TrackedFiles(after)
    /\ after.dirs = before.dirs
    /\ Without(after.files, path) = before.files

\* `after` is `before` with the tracked file `path` renamed to `target`.
TrackedFileRenamed(before, after, path, target) ==
    /\ path \in TrackedFiles(before)
    /\ target \in TrackedFiles(after)
    /\ path \notin DOMAIN after.files
    /\ target \notin DOMAIN before.files
    /\ after.dirs = before.dirs
    /\ Without(after.files, target) = Without(before.files, path)
    /\ after.files[target] = before.files[path]

\* One tracked file, outside the paths of `named`, has been added,
\* removed or renamed between the reference and the scan.
OneTrackedFileChanged(named) ==
    LET before == out.val.reference.repo
        after == out.val.repo
    IN  \E path \in RepoFiles :
            /\ AsPosix(path) \notin named
            /\ \/ TrackedFileAdded(before, after, path)
               \/ TrackedFileAdded(after, before, path)
               \/ \E target \in RepoFiles :
                      /\ AsPosix(target) \notin named
                      /\ TrackedFileRenamed(before, after, path, target)

C7_FolderHashFollowsFolderSet ==
    Compared =>
        ( out.val.snapshot.folder_hash = out.val.reference.folder_hash
            <=> TrackedFolders(out.val.repo) = TrackedFolders(out.val.reference.repo) )

\* The second scan has seen the tracked folder d added, and has a
\* different folder hash.
C7_Witness ==
    /\ Compared
    /\ TrackedFolders(out.val.repo) = TrackedFolders(out.val.reference.repo) \cup {<<NameD>>}
    /\ <<NameD>> \notin TrackedFolders(out.val.reference.repo)
    /\ out.val.snapshot.folder_hash # out.val.reference.folder_hash

\* The content of the file `path`, untracked for the walker, has been
\* edited between the reference and the scan, and nothing else.
UntrackedFileEdited(path) ==
    LET before == out.val.reference.repo
        after == out.val.repo
    IN  /\ path \in UntrackedFiles(before)
        /\ after.dirs = before.dirs
        /\ DOMAIN after.files = DOMAIN before.files
        /\ after.files[path] # before.files[path]
        /\ \A other \in DOMAIN before.files \ {path} : after.files[other] = before.files[other]

GateRepos ==
    { [dirs |-> dirs, files |-> files] :
        dirs \in SUBSET { <<NameD>> },
        files \in { <<>> } \cup { (<<NameAPy>> :> text) :
                                    text \in {SourceWithHeader, SourceNoHeader} } }

\* The configurations: the directory of the map among the excluded
\* names (as in the default configuration), and not among them.
GateConfigs ==
    { DefaultConfig, [DefaultConfig EXCEPT !.exclude_dir_names = {NameGit}] }

\* The values of an environment variable: unset, and set to "1".
EnvValues == { None, Some(<<"1">>) }

\* The flags of the lint command.
LintFlags ==
    { [strict_folders |-> strict, report_untracked |-> FALSE, strict_untracked |-> FALSE] :
        strict \in BOOLEAN }

InitGate ==
    /\ fs \in GateRepos
    /\ config \in GateConfigs
    /\ out = NoOutcome
    /\ synced = FALSE

\* projectatlas map
RunMap ==
    /\ \E skip \in EnvValues, generated_at \in {StampOne} :
           /\ fs' \in run_map(fs, config, [PROJECTATLAS_SKIP_UPDATE |-> skip], generated_at)
           /\ out' = [op |-> "map", val |-> [skipped |-> is_truthy_env(skip), code |-> 0]]
           /\ synced' = IF is_truthy_env(skip) THEN synced ELSE TRUE
    /\ UNCHANGED config

\* projectatlas lint
RunLint ==
    /\ \E walk \in iter_repo_paths_with_untracked(fs, config) :
           \E facts \in { LintFacts(fs, config, walk) } :
               \E flags \in LintFlags :
                   out' = [ op |-> "lint",
                            val |-> [ flags |-> flags,
                                      outcome |-> LintOutcome(facts, flags,
                                          [ CI |-> None,
                                            PROJECTATLAS_ALLOW_UNTRACKED |-> None ]) ] ]
    /\ UNCHANGED <<fs, config, synced>>

\* The repository changes into `repo` behind the back of the map.
Drift(repo) ==
    /\ fs' = repo
    /\ out' = NoOutcome
    /\ synced' = FALSE
    /\ UNCHANGED config

\* a.py is created or rewritten.
WriteSource ==
    \E text \in {SourceWithHeader, SourceNoHeader} :
        /\ ~(<<NameAPy>> \in DOMAIN fs.files /\ fs.files[<<NameAPy>>] = text)
        /\ Drift([fs EXCEPT !.files = (<<NameAPy>> :> text) @@ fs.files])

DeleteSource ==
    /\ <<NameAPy>> \in DOMAIN fs.files
    /\ Drift([fs EXCEPT !.files = Without(fs.files, <<NameAPy>>)])

MakeFolder ==
    /\ <<NameD>> \notin fs.dirs
    /\ Drift([fs EXCEPT !.dirs = fs.dirs \cup { <<NameD>> }])

DeleteFolder ==
    /\ <<NameD>> \in fs.dirs
    /\ Drift([fs EXCEPT !.dirs = fs.dirs \ { <<NameD>> }])

\* The map loses the line of one of its hashes.
TamperMap ==
    /\ config.map_path \in DOMAIN fs.files
    /\ \E tag \in {FileHashTag, FolderHashTag} :
           LET lines == splitlines(fs.files[config.map_path])
               kept == SelectSeq(lines, LAMBDA line : ~StartsWith(line, tag))
           IN  /\ kept # lines
               /\ Drift([fs EXCEPT !.files = [fs.files EXCEPT ![config.map_path] = Text(kept)]])

DeleteMap ==
    /\ config.map_path \in DOMAIN fs.files
    /\ Drift([fs EXCEPT !.files = Without(fs.files, config.map_path)])

NextGate ==
    \/ RunMap
    \/ RunLint
    \/ WriteSource
    \/ DeleteSource
    \/ MakeFolder
    \/ DeleteFolder
    \/ TamperMap
    \/ DeleteMap

SpecGate == InitGate /\ [][NextGate]_vars

(***************************************************************************)
(* The map against the repository (claims C9 and C10)                      *)
(***************************************************************************)

\* The errors of run_lint about the map.
MissingOverview == "Atlas map missing overview. Run: projectatlas map"
OverviewStale == "Atlas map overview stale. Run: projectatlas map"
MissingHashes == "Atlas map missing hashes. Run: projectatlas map"
FileHashStale == "Atlas map file hash stale. Run: projectatlas map"
FolderHashStale == "Atlas map folder hash stale. Run: projectatlas map"

\* The errors the last lint reported.
Reported == IF out.op = "lint" THEN Range(out.val.outcome.errors) ELSE {}

\* C9: when run_map has completed without being skipped and nothing has
\* changed the repository since, run_lint reports none of the errors
\* missing overview, overview stale, missing hashes, file hash stale,
\* folder hash stale, also when run_map had to create the directory of
\* the map.
C9_LintAfterMapIsClean ==
    (out.op = "lint" /\ synced)
        => Reported \cap { MissingOverview, OverviewStale, MissingHashes,
                           FileHashStale, FolderHashStale } = {}

\* C10: with both stored hashes present, run_lint reports the file hash
\* stale exactly when the stored file hash differs from the computed
\* one, and the folder hash stale exactly when the stored folder hash
\* differs from the computed one, each whatever the other, and fails if
\* it reports either; with a stored hash absent it reports the hashes
\* missing and fails.
C10_HashErrorsAreIndependent ==
    out.op = "lint" =>
        \A walk \in iter_repo_paths(fs, config) :
            LET stored == read_map_hashes(fs, config.map_path)
                computed == build_snapshot(fs, config, walk, StampOne)
            IN  IF stored.file_hash.has /\ stored.folder_hash.has
                THEN /\ FileHashStale \in Reported
                         <=> stored.file_hash.text # computed.file_hash
                     /\ FolderHashStale \in Reported
                         <=> stored.folder_hash.text # computed.folder_hash
                     /\ MissingHashes \notin Reported
                     /\ (FileHashStale \in Reported \/ FolderHashStale \in Reported)
                            => out.val.outcome.code = 1
                ELSE /\ MissingHashes \in Reported
                     /\ FileHashStale \notin Reported
                     /\ FolderHashStale \notin Reported
                     /\ out.val.outcome.code = 1

\* A lint has found both stored hashes present and both stale, and has
\* reported each with its own message.
C10_Witness ==
    /\ out.op = "lint"
    /\ read_map_hashes(fs, config.map_path).file_hash.has
    /\ read_map_hashes(fs, config.map_path).folder_hash.has
    /\ FileHashStale \in Reported
    /\ FolderHashStale \in Reported
    /\ out.val.outcome.code = 1

(***************************************************************************)
(* Maps whose overview line has been rewritten by hand                     *)
(***************************************************************************)

\* The tokens of an overview line, as format_overview writes them, for
\* the keys `keys` (a sequence) and the text `value[key]` of each.
OverviewTokens(keys, value) ==
    [i \in 1..Len(keys) |-> keys[i] \o <<"=">> \o value[keys[i]]]

\* The texts of the five counters.
CounterTexts(counters) == [key \in Range(OVERVIEW_KEY_ORDER) |-> ToDecimal(counters[key])]

\* Tokens that are no counter of the overview: no `=`, an unknown key, a
\* value that is no number, an empty value, a value of digits that are
\* not decimal.
BadTokens ==
    { <<"x">>,
      <<"x", "=", "1">>,
      KeyTrackedFiles \o <<"=", "a">>,
      KeyTrackedFiles \o <<"=">>,
      KeyTrackedFiles \o <<"=", SuperTwo>> }

\* The ways of rewriting the overview line whose counters are `counters`:
\* what is written (no line at all, or the tokens of the line) and what
\* the line then says (nothing that parses, or five counters).
Rewritings(counters) ==
    LET texts == CounterTexts(counters)
        Keys == Range(OVERVIEW_KEY_ORDER)
    IN  { [kind |-> "absent", line |-> FALSE, tokens |-> <<>>, sound |-> FALSE,
           counters |-> counters] }
        \cup { [kind |-> "empty", line |-> TRUE, tokens |-> <<>>, sound |-> FALSE,
                counters |-> counters] }
        \cup { [kind |-> "dropped", line |-> TRUE,
                tokens |-> OverviewTokens(SelectSeq(OVERVIEW_KEY_ORDER, LAMBDA k : k # key),
                                          texts),
                sound |-> FALSE, counters |-> counters] : key \in Keys }
        \cup { [kind |-> "garbled", line |-> TRUE,
                tokens |-> OverviewTokens(OVERVIEW_KEY_ORDER, texts) \o <<bad>>,
                sound |-> FALSE, counters |-> counters] : bad \in BadTokens }
        \cup { [kind |-> "changed", line |-> TRUE,
                tokens |-> OverviewTokens(OVERVIEW_KEY_ORDER,
                               [texts EXCEPT ![key] = ToDecimal(counters[key] + 1)]),
                sound |-> TRUE,
                counters |-> [counters EXCEPT ![key] = counters[key] + 1]] : key \in Keys }
        \cup { [kind |-> "padded", line |-> TRUE,
                tokens |-> OverviewTokens(OVERVIEW_KEY_ORDER,
                               [texts EXCEPT ![key] = <<"0">> \o texts[key]]),
                sound |-> TRUE, counters |-> counters] : key \in Keys }

\* The lines of a map with its overview line rewritten.
Rewritten(lines, rewriting) ==
    LET at == Min({ i \in 1..Len(lines) : StartsWith(lines[i], OverviewTag) })
        line == OverviewTag \o <<" ">> \o Join(rewriting.tokens, <<" ">>)
    IN  SubSeq(lines, 1, at - 1)
            \o (IF rewriting.line THEN <<line>> ELSE <<>>)
            \o SubSeq(lines, at + 1, Len(lines))

\* Somebody edits the overview line of the map that run_map has written.
RewriteOverview ==
    /\ synced
    /\ out.op = "map"
    /\ \E rewriting \in Rewritings(read_overview(fs, config.map_path).overview) :
           /\ fs' = [fs EXCEPT !.files[config.map_path] =
                        Text(Rewritten(splitlines(fs.files[config.map_path]), rewriting))]
           /\ out' = [op |-> "rewritten", val |-> rewriting]
    /\ synced' = FALSE
    /\ UNCHANGED config

\* projectatlas lint, right after the overview line was rewritten.
LintRewritten ==
    /\ out.op = "rewritten"
    /\ \E walk \in iter_repo_paths_with_untracked(fs, config) :
           \E facts \in { LintFacts(fs, config, walk) } :
               \E flags \in LintFlags :
                   out' = [ op |-> "lint",
                            val |-> [ flags |-> flags,
                                      outcome |-> LintOutcome(facts, flags,
                                          [ CI |-> None,
                                            PROJECTATLAS_ALLOW_UNTRACKED |-> None ]),
                                      rewriting |-> out.val ] ]
    /\ UNCHANGED <<fs, config, synced>>

NextOverview ==
    \/ RunMap
    \/ RunLint
    \/ RewriteOverview
    \/ LintRewritten

SpecOverview == InitGate /\ [][NextOverview]_vars

(***************************************************************************)
(* The overview of the map against the repository (claim C11)              *)
(***************************************************************************)

OverviewInvalid == "Atlas map overview invalid. Run: projectatlas map"

\* The last lint ran on a map whose overview line had been rewritten.
LintedRewritten == out.op = "lint" /\ "rewriting" \in DOMAIN out.val

\* The stored overview is there, parses, has the five keys, and its
\* counters are those of the repository.
StoredOverviewIsCurrent ==
    /\ out.val.rewriting.sound
    /\ \A walk \in iter_repo_paths(fs, config) :
           out.val.rewriting.counters = compute_overview(walk.folders, walk.files, config)

\* C11: run_lint reports an overview error and fails whenever the stored
\* overview line is absent, does not parse, lacks one of the five keys
\* or differs in a counter from the computed overview; it reports no
\* overview error only when the five stored counters exist and equal the
\* computed ones.
C11_OverviewErrorUnlessCurrent ==
    LintedRewritten =>
        ( ~StoredOverviewIsCurrent
            => /\ Reported \cap {MissingOverview, OverviewInvalid, OverviewStale} # {}
               /\ out.val.outcome.code = 1 )

(***************************************************************************)
(* Record building over repositories with a manual list                    *)
(***************************************************************************)

LineFilesHeader == <<"f", "i", "l", "e", "s", "[", "]", ":">>
LineManualNotesComma ==
    <<" ", " ", "n", ".", "t", "x", "t", ",", " ", "M", ",", "n">>
LineManualNotesColon ==
    <<" ", " ", "n", ".", "t", "x", "t", ",", " ", "M", "n", ":", " ", "x">>
LineManualOneField == <<" ", " ", "n", ".", "t", "x", "t">>
SummaryMn == <<"M", "n">>
SummaryMnColon == <<"M", "n", ":", " ", "x">>
SummaryMComma == <<"M", ",", "n">>

\* The lines a manual list is made of.
ManualLines ==
    { LineManualHeader, LineFilesHeader, LineManualAPy, LineManualNotes,
      LineManualNotesComma, LineManualNotesColon, LineManualOneField,
      LineComment, LineBlank }

\* The longest manual list, in lines.
MaxManualLines == 3

\* The repositories: e.py without a header, a.py with a header or not
\* there, n.txt there or not, and the manual list.
ManualRepos ==
    { [ dirs |-> {},
        files |-> (<<NameManual>> :> Text(lines)) @@ sources @@ notes
                      @@ (<<NameEPy>> :> SourceNoHeader) ] :
        lines \in SeqsUpTo(ManualLines, MaxManualLines),
        sources \in { <<>>, (<<NameAPy>> :> SourceWithHeader) },
        notes \in { <<>>, (<<NameNotes>> :> NotesCode) } }

InitManual ==
    /\ fs \in ManualRepos
    /\ config = RepoConfig
    /\ out = NoOutcome
    /\ synced = FALSE

SpecManual == InitManual /\ [][NextExtract]_vars

(***************************************************************************)
(* Manual entries and their merge (claims C12 to C14)                      *)
(***************************************************************************)

\* The records have been built over a repository with a manual list.
BuiltWithManual == out.op = "records" /\ config.manual_files_path.has

AutoRecords == out.val.files.records
ManualRecords == out.val.manual.records
MergedRecords == out.val.merged

PathsOf(records) == { records[i].path : i \in 1..Len(records) }

\* C12: every auto-discovered record is in the merged set unchanged, a
\* path with an auto-discovered record and manual entries has the
\* auto-discovered record (and no other) in the merged set, and a record
\* of the merged set that is not auto-discovered is a manual entry of a
\* path without auto-discovered record.
C12_AutoRecordsWinTheMerge ==
    BuiltWithManual =>
        /\ \A record \in Range(AutoRecords) :
               /\ record \in Range(MergedRecords)
               /\ \A merged \in Range(MergedRecords) :
                      merged.path = record.path => merged = record
        /\ \A merged \in Range(MergedRecords) \ Range(AutoRecords) :
               /\ merged \in Range(ManualRecords)
               /\ merged.path \notin PathsOf(AutoRecords)

\* The manual list names a.py, whose header was discovered, and n.txt:
\* the merged set has the header record of a.py and the manual record of
\* n.txt.
C12_Witness ==
    /\ BuiltWithManual
    /\ \E manual \in Range(ManualRecords) : manual.path = NameAPy /\ manual.source = "manual"
    /\ \E record \in Range(MergedRecords) : record.path = NameAPy /\ record.source = "header"
    /\ \E record \in Range(MergedRecords) : record.path = NameNotes /\ record.source = "manual"

\* What a line of ManualLines is, by the way it is written: the opening
\* of the manual_files section, the opening of another section, an entry
\* `path, summary` (with whether the summary passes validation), or a
\* line without entry (blank, comment, one field).
ManualLineReading(line) ==
    CASE line = LineManualHeader ->
             [kind |-> "opens", path |-> <<>>, summary |-> <<>>, valid |-> FALSE]
      [] line = LineFilesHeader ->
             [kind |-> "closes", path |-> <<>>, summary |-> <<>>, valid |-> FALSE]
      [] line = LineManualAPy ->
             [kind |-> "entry", path |-> NameAPy, summary |-> SummaryMn, valid |-> TRUE]
      [] line = LineManualNotes ->
             [kind |-> "entry", path |-> NameNotes, summary |-> SummaryMn, valid |-> TRUE]
      [] line = LineManualNotesComma ->
             [kind |-> "entry", path |-> NameNotes, summary |-> SummaryMComma, valid |-> FALSE]
      [] line = LineManualNotesColon ->
             [kind |-> "entry", path |-> NameNotes, summary |-> SummaryMnColon, valid |-> TRUE]
      [] OTHER ->
             [kind |-> "none", path |-> <<>>, summary |-> <<>>, valid |-> FALSE]

\* The entry of a line `path, summary` inside the section.
ExpectedEntry(reading) ==
    IF <<reading.path>> \notin DOMAIN fs.files THEN Record(reading.path, MISSING, "missing")
    ELSE IF reading.valid THEN Record(reading.path, reading.summary, "manual")
    ELSE Record(reading.path, INVALID, "invalid")

\* The entries of the lines of a manual list: one for every entry line
\* inside the manual_files section, in the order of the lines.
RECURSIVE ExpectedEntries(_, _)
ExpectedEntries(lines, inside) ==
    IF lines = <<>> THEN <<>>
    ELSE LET reading == ManualLineReading(lines[1])
         IN  CASE reading.kind = "opens" -> ExpectedEntries(Tail(lines), TRUE)
               [] reading.kind = "closes" -> ExpectedEntries(Tail(lines), FALSE)
               [] reading.kind = "entry" /\ inside ->
                      <<ExpectedEntry(reading)>> \o ExpectedEntries(Tail(lines), inside)
               [] OTHER -> ExpectedEntries(Tail(lines), inside)

\* C13: the manual entries are those of the lines `path, summary` inside
\* the manual_files section, one per line: missing when the path does not
\* exist, else manual with the summary given when it passes validation,
\* else invalid; no other line gives an entry and no entry line is
\* dropped.
C13_OneEntryPerManualLine ==
    BuiltWithManual =>
        ManualRecords = ExpectedEntries(splitlines(fs.files[<<NameManual>>]), FALSE)

\* C14: the final file record list has at most one record per path and
\* is in ascending order of path.
C14_FinalRecordsUniqueAndSorted ==
    BuiltWithManual =>
        \A i, j \in 1..Len(MergedRecords) :
            i < j => StrLess(MergedRecords[i].path, MergedRecords[j].path)

\* The manual list repeats the path a.py, which does not exist, and the
\* final list has it once, before the auto-discovered e.py.
C14_Witness ==
    /\ BuiltWithManual
    /\ Cardinality({ i \in 1..Len(ManualRecords) : ManualRecords[i].path = NameAPy }) = 2
    /\ Len(MergedRecords) = 2
    /\ MergedRecords[1].source = "missing" /\ MergedRecords[1].path = NameAPy
    /\ MergedRecords[2].path = NameEPy

(***************************************************************************)
(* Duplicate detection over record lists                                   *)
(***************************************************************************)

SummaryAb == <<"A", "b">>

\* The records of the lists: three paths, two summaries and a sentinel
\* for each, and one record with the other sentinel.
DuplicateRecords ==
    { Record(path, summary, "header") :
        path \in {NameAPy, NameEPy, NameNotes}, summary \in {SummaryAb, SummaryMn} }
    \cup { Record(path, MISSING, "missing") : path \in {NameAPy, NameEPy, NameNotes} }
    \cup { Record(NameAPy, INVALID, "invalid") }

\* The longest record list.
MaxRecords == 4

InitDuplicates ==
    /\ fs = [dirs |-> {}, files |-> <<>>]
    /\ config = DefaultConfig
    /\ out \in { [op |-> "given", val |-> records] :
                   records \in SeqsUpTo(DuplicateRecords, MaxRecords) }
    /\ synced = FALSE

\* build_summary_duplicates(records)
FindDuplicates ==
    /\ out.op = "given"
    /\ out' = [ op |-> "duplicates",
                val |-> [ records |-> out.val,
                          duplicates |-> build_summary_duplicates(out.val) ] ]
    /\ UNCHANGED <<fs, config, synced>>

NextDuplicates == FindDuplicates

SpecDuplicates == InitDuplicates /\ [][NextDuplicates]_vars

(***************************************************************************)
(* Duplicate groups (claim C15)                                            *)
(***************************************************************************)

\* How many records of the list carry the summary.
Carriers(records, summary) == { i \in 1..Len(records) : records[i].summary = summary }

\* The paths of the records that carry the summary, in ascending order.
PathsInOrder(records, summary) ==
    LET carriers == Carriers(records, summary)
        n == Cardinality(carriers)
    IN  CHOOSE paths \in [1..n -> { records[i].path : i \in carriers }] :
            /\ \A path \in Range(paths) :
                   Cardinality({ k \in 1..n : paths[k] = path })
                       = Cardinality({ i \in carriers : records[i].path = path })
            /\ \A k \in 1..(n - 1) : paths[k] = paths[k + 1] \/ StrLess(paths[k], paths[k + 1])

\* The entry of a summary: `S :: ` and the paths joined by ` | `.
DuplicateEntry(records, summary) ==
    summary \o <<" ", ":", ":", " ">>
        \o Join(PathsInOrder(records, summary), <<" ", "|", " ">>)

\* C15: the output of build_summary_duplicates has one entry for each
\* summary other than MISSING and INVALID that at least two records
\* carry, and no other entry; the entry of S is `S :: ` followed by the
\* paths of the records that carry S, sorted and joined by ` | `; the
\* entries are in ascending order of summary.
C15_DuplicateGroups ==
    out.op = "duplicates" =>
        LET records == out.val.records
            duplicates == out.val.duplicates
            repeated == { summary \in { records[i].summary : i \in 1..Len(records) }
                                          \ {MISSING, INVALID} :
                            Cardinality(Carriers(records, summary)) >= 2 }
            At(summary) == { i \in 1..Len(duplicates) :
                               duplicates[i] = DuplicateEntry(records, summary) }
        IN  /\ \A summary \in repeated : Cardinality(At(summary)) = 1
            /\ Len(duplicates) = Cardinality(repeated)
            /\ \A first, second \in repeated :
                   StrLess(first, second)
                       => \A i \in At(first), j \in At(second) : i < j

\* Two summaries with two records each, given in descending order, and
\* the two entries of the output.
C15_Witness ==
    /\ out.op = "duplicates"
    /\ Len(out.val.records) = 4
    /\ out.val.records[1].summary = SummaryMn
    /\ out.val.records[1].path = NameNotes
    /\ out.val.records[2].path = NameAPy
    /\ Len(out.val.duplicates) = 2
    /\ out.val.duplicates[1] = DuplicateEntry(out.val.records, SummaryAb)
    /\ out.val.duplicates[2] = DuplicateEntry(out.val.records, SummaryMn)

(***************************************************************************)
(* Record building over folders with a marker file                         *)
(***************************************************************************)

LineSlashComment == <<"/", "/", " ", "c">>
LineSummaryAb == <<"A", "b">>
LinePurposeAlone == <<"P", "u", "r", "p", "o", "s", "e", ":">>
LineTextBeforePurpose == <<"x", " ", "P", "u", "r", "p", "o", "s", "e", ":", " ", "A", "b">>
SummaryAbC == <<"A", "b", " ", "c">>

\* The lines a marker file is made of.
MarkerLines ==
    { LineBlank, LineComment, LineSlashComment, LineSummaryAb, LinePurpose,
      LinePurposeComma, LinePurposeAlone, LineTextBeforePurpose }

\* The longest marker file, in lines.
MaxMarkerLines == 3

\* The marker file of the root, if any.
RootMarkers ==
    { <<>> } \cup { (<<NamePurpose>> :> Text(lines)) :
                       lines \in SeqsUpTo(MarkerLines, MaxMarkerLines) }

\* The repositories: the marker file of the root, if any, and the folder
\* d, if any, with a marker file or without.
FolderRepos ==
    { [dirs |-> {}, files |-> root] : root \in RootMarkers }
    \cup { [dirs |-> { <<NameD>> }, files |-> root @@ below] :
              root \in RootMarkers,
              below \in { <<>>, (<<NameD, NamePurpose>> :> Text(<<LineSummaryAb>>)) } }

InitFolders ==
    /\ fs \in FolderRepos
    /\ config = DefaultConfig
    /\ out = NoOutcome
    /\ synced = FALSE

SpecFolders == InitFolders /\ [][NextExtract]_vars

(***************************************************************************)
(* Folder records (claims C16 and C17)                                     *)
(***************************************************************************)

\* What a line of MarkerLines is, by the way it is written: blank,
\* comment-prefixed, `X` or `Purpose: X` (with normalize(X) and whether
\* it passes validation), or `Purpose:` with nothing after it.
MarkerLineReading(line) ==
    CASE line = LineBlank -> [kind |-> "blank", summary |-> <<>>, valid |-> FALSE]
      [] line \in {LineComment, LineSlashComment} ->
             [kind |-> "comment", summary |-> <<>>, valid |-> FALSE]
      [] line = LineSummaryAb -> [kind |-> "text", summary |-> SummaryAb, valid |-> TRUE]
      [] line = LinePurpose -> [kind |-> "text", summary |-> SummaryAbC, valid |-> TRUE]
      [] line = LinePurposeComma ->
             [kind |-> "text", summary |-> <<"a", ",", "b">>, valid |-> FALSE]
      [] line = LineTextBeforePurpose ->
             [kind |-> "text", summary |-> LineTextBeforePurpose, valid |-> TRUE]
      [] line = LinePurposeAlone -> [kind |-> "bare", summary |-> <<>>, valid |-> FALSE]

\* The reading of the first line of a marker file that is neither blank
\* nor comment-prefixed; of kind "none" if there is no such line.
FirstContent(lines) ==
    LET content == { i \in 1..Len(lines) :
                       MarkerLineReading(lines[i]).kind \notin {"blank", "comment"} }
    IN  IF content = {} THEN [kind |-> "none", summary |-> <<>>, valid |-> FALSE]
        ELSE MarkerLineReading(lines[Min(content)])

\* The folders of the walk and the marker file of each.
BuiltFolders == IF out.op = "records" THEN Range(out.val.walk.folders) ELSE {}
MarkerOf(folder) == folder \o <<NamePurpose>>
HasMarker(folder) == MarkerOf(folder) \in DOMAIN fs.files
MarkerContent(folder) == FirstContent(splitlines(fs.files[MarkerOf(folder)]))

\* The record of the folder, and whether it is reported missing, invalid.
FolderRecordOf(folder) ==
    CHOOSE record \in Range(out.val.folders.records) : record.path = AsPosix(folder)
ReportedMissing(folder) == AsPosix(folder) \in Range(out.val.folders.missing)
ReportedInvalid(folder) == AsPosix(folder) \in DOMAIN out.val.folders.invalid

\* C16: a tracked folder whose marker file has, as its first line that
\* is neither blank nor comment-prefixed, `X` or `Purpose: X` with
\* normalize(X) passing validation gets the record (path, normalize(X),
\* purpose) and is reported neither missing nor invalid; a folder without
\* marker file gets (path, MISSING, missing); a marker whose summary fails
\* validation gives (path, INVALID, invalid).
C16_FolderRecordFromMarker ==
    \A folder \in BuiltFolders :
        IF ~HasMarker(folder)
        THEN FolderRecordOf(folder) = Record(AsPosix(folder), MISSING, "missing")
        ELSE /\ (MarkerContent(folder).kind = "text" /\ MarkerContent(folder).valid)
                    => /\ FolderRecordOf(folder)
                           = Record(AsPosix(folder), MarkerContent(folder).summary, "purpose")
                       /\ ~ReportedMissing(folder)
                       /\ ~ReportedInvalid(folder)
             /\ (MarkerContent(folder).kind = "text" /\ ~MarkerContent(folder).valid)
                    => FolderRecordOf(folder) = Record(AsPosix(folder), INVALID, "invalid")

\* C17: a tracked folder whose marker file exists and gives an empty
\* summary (only blank and comment-prefixed lines, or `Purpose:` with
\* nothing after it as the first other line) is reported with the issue
\* "missing Purpose summary" and its record has the source invalid.
C17_EmptyMarkerIsInvalid ==
    \A folder \in BuiltFolders :
        (HasMarker(folder) /\ MarkerContent(folder).kind \in {"none", "bare"})
            => /\ ReportedInvalid(folder)
               /\ out.val.folders.invalid[AsPosix(folder)] = <<"missing Purpose summary">>
               /\ FolderRecordOf(folder).source = "invalid"
               /\ ~ReportedMissing(folder)

(***************************************************************************)
(* Walks over directory trees with excluded parts                          *)
(***************************************************************************)

NameB == <<"b">>
PrefixD == <<"d">>
PrefixDB == <<"d", "/", "b">>
PrefixDAPy == <<"d", "/", "a", ".", "p", "y">>

\* The directories and the files a tree can hold.
TreeDirs == { <<NameD>>, <<NameD, NameB>>, <<NameGit>> }
TreeFiles ==
    { <<NameAPy>>, <<NameD, NameAPy>>, <<NameD, NameNotes>>,
      <<NameD, NameB, NameAPy>>, <<NameGit, NameAPy>> }

\* The trees: every directory has its parent, every file its directory.
Trees ==
    { [dirs |-> dirs, files |-> [path \in files |-> SourceNoHeader]] :
        dirs \in { ds \in SUBSET TreeDirs : \A d \in ds : Parent(d) \in ds \cup {RootPath} },
        files \in SUBSET TreeFiles } 

\* The configurations: .git excluded by name; nothing, the folder d/b or
\* the file d/a.py excluded by path prefix; nothing or the folder d under
\* a non-source path prefix.
WalkConfigs ==
    { [DefaultConfig EXCEPT !.exclude_dir_names = {NameGit},
                            !.exclude_path_prefixes = excluded,
                            !.non_source_path_prefixes = non_source] :
        excluded \in { {}, {PrefixDB}, {PrefixDAPy} },
        non_source \in { {}, {PrefixD} } }

InitWalk ==
    /\ fs \in { tree \in Trees :
                  \A path \in DOMAIN tree.files : Parent(path) \in tree.dirs \cup {RootPath} }
    /\ config \in WalkConfigs
    /\ out = NoOutcome
    /\ synced = FALSE

\* iter_repo_paths_with_untracked(config)
Walk ==
    /\ out.op = "none"
    /\ \E walk \in iter_repo_paths_with_untracked(fs, config) :
           out' = [op |-> "walk", val |-> walk]
    /\ UNCHANGED <<fs, config, synced>>

NextWalk == Walk

SpecWalk == InitWalk /\ [][NextWalk]_vars

(***************************************************************************)
(* The four outputs of the walker (claims C18 and C19)                     *)
(***************************************************************************)

\* `prefix` (the segments of a path prefix) leads the path.
LeadsPath(prefix, path) == Len(prefix) <= Len(path) /\ SubSeq(path, 1, Len(prefix)) = prefix

\* The relative path is excluded, or lies beneath an excluded directory:
\* one of its segments is an excluded name or ends with an excluded
\* suffix, or an excluded path prefix leads it.
ExcludedPath(path) ==
    /\ path # RootPath
    /\ \/ \E i \in 1..Len(path) : path[i] \in config.exclude_dir_names
       \/ \E i \in 1..Len(path) : \E suffix \in config.exclude_dir_suffixes :
              Len(suffix) <= Len(path[i])
                  /\ SubSeq(path[i], Len(path[i]) - Len(suffix) + 1, Len(path[i])) = suffix
       \/ \E prefix \in { <<NameD>>, <<NameD, NameB>>, <<NameD, NameAPy>> } :
              /\ Join(prefix, <<"/">>) \in config.exclude_path_prefixes
              /\ LeadsPath(prefix, path)

\* The file is under a non-source path prefix, or its extension is not a
\* source extension.
NonSourceFile(path) ==
    \/ \E prefix \in { <<NameD>> } :
           /\ Join(prefix, <<"/">>) \in config.non_source_path_prefixes
           /\ LeadsPath(prefix, path)
    \/ path \in { <<NameD, NameNotes>> }

Walked == out.op = "walk"
WalkedFolders == Range(out.val.folders)
WalkedFiles == Range(out.val.files)
WalkedUntracked == Range(out.val.untracked_files)
WalkedExcluded == Range(out.val.excluded_paths)

\* The four outputs, as relative path texts, share no path.
OutputsDisjoint ==
    LET folders == { AsPosix(p) : p \in WalkedFolders }
        files == { AsPosix(p) : p \in WalkedFiles }
        untracked == { AsPosix(p) : p \in WalkedUntracked }
    IN  /\ folders \cap files = {} /\ folders \cap untracked = {}
        /\ folders \cap WalkedExcluded = {} /\ files \cap untracked = {}
        /\ files \cap WalkedExcluded = {} /\ untracked \cap WalkedExcluded = {}

\* Every file whose directory is not excluded is in exactly one of the
\* tracked and the untracked files: untracked exactly when it is a
\* non-source file.
FilesClassified ==
    \A path \in DOMAIN fs.files :
        ~ExcludedPath(Parent(path))
            => /\ path \in WalkedFiles <=> ~NonSourceFile(path)
               /\ path \in WalkedUntracked <=> NonSourceFile(path)

\* C18 as stated: the four outputs are pairwise disjoint; every file
\* whose directory is not excluded is tracked or untracked, never both;
\* no path that is excluded or beneath an excluded directory is among the
\* tracked folders, the tracked files or the untracked files; the root is
\* a tracked folder.
C18_WalkerOutputs ==
    Walked =>
        /\ OutputsDisjoint
        /\ FilesClassified
        /\ \A path \in WalkedFolders \cup WalkedFiles \cup WalkedUntracked : ~ExcludedPath(path)
        /\ RootPath \in WalkedFolders

\* C18, amended: as stated, but with the exclusion of a file decided by
\* its directory alone: no excluded directory is among the tracked
\* folders, and no file whose directory is excluded is among the tracked
\* or the untracked files.
C18_WalkerOutputsByDirectory ==
    Walked =>
        /\ OutputsDisjoint
        /\ FilesClassified
        /\ \A path \in WalkedFolders : ~ExcludedPath(path)
        /\ \A path \in WalkedFiles \cup WalkedUntracked : ~ExcludedPath(Parent(path))
        /\ RootPath \in WalkedFolders

\* A walk over a tree with a.py tracked at the root, d/n.txt untracked,
\* d/b excluded by prefix and .git by name, each with a file in it.
C18_Witness ==
    /\ Walked
    /\ fs.dirs = TreeDirs
    /\ DOMAIN fs.files = TreeFiles
    /\ config.exclude_path_prefixes = {PrefixDB}
    /\ WalkedFolders = { RootPath, <<NameD>> }
    /\ WalkedFiles = { <<NameAPy>>, <<NameD, NameAPy>> }
    /\ WalkedUntracked = { <<NameD, NameNotes>> }

\* C19: every directory that exists, whose relative path is excluded and
\* whose parent is a tracked folder, is in the excluded paths of the
\* walker, and none of the tracked folders is beneath it.
C19_ExcludedDirectoriesAreListed ==
    Walked =>
        \A dir \in fs.dirs :
            (ExcludedPath(dir) /\ Parent(dir) \in WalkedFolders)
                => /\ AsPosix(dir) \in WalkedExcluded
                   /\ \A folder \in WalkedFolders : ~LeadsPath(dir, folder)

(***************************************************************************)
(* Validation of summaries                                                 *)
(***************************************************************************)

\* The characters of the summaries, the longest summary and the length
\* limits of the configurations.
SummaryChars == { "A", "b", ",", EAcute }
MaxSummaryLen == 3
SummaryLimits == { 1, 2, 140 }

Summaries ==
    UNION { [1..n -> SummaryChars] : n \in 0..MaxSummaryLen }

\* Where a summary comes from: a header of one of the dialects, a line of
\* the manual list, a folder's marker file.
Origins == { "python", "javadoc", "vue", "manual", "purpose" }

ValidateConfigs ==
    { [DefaultConfig EXCEPT !.summary_no_commas = no_commas,
                            !.summary_ascii_only = ascii_only,
                            !.summary_max_length = limit] :
        no_commas \in BOOLEAN, ascii_only \in BOOLEAN, limit \in SummaryLimits }

InitValidate ==
    /\ fs = [dirs |-> {}, files |-> <<>>]
    /\ config \in ValidateConfigs
    /\ out \in { [op |-> "given", val |-> [summary |-> summary, origin |-> origin]] :
                   summary \in Summaries, origin \in Origins }
    /\ synced = FALSE

\* validate_summary(summary, config)
Validate ==
    /\ out.op = "given"
    /\ out' = [op |-> "validated",
               val |-> [summary |-> out.val.summary,
                        origin |-> out.val.origin,
                        problems |-> validate_summary(out.val.summary, config)]]
    /\ UNCHANGED <<fs, config, synced>>

NextValidate == Validate

SpecValidate == InitValidate /\ [][NextValidate]_vars

(***************************************************************************)
(* One problem for each violated rule (claim C20)                          *)
(***************************************************************************)

Validated == out.op = "validated"

\* The rules, each with the problem that reports it and whether the
\* summary violates it.
SummaryRules(summary) ==
    { [problem |-> "summary is empty",
       violated |-> Len(summary) = 0],
      [problem |-> "summary contains a comma",
       violated |-> config.summary_no_commas /\ \E i \in 1..Len(summary) : summary[i] = ","],
      [problem |-> "summary contains non-ASCII characters",
       violated |-> config.summary_ascii_only
                        /\ \E i \in 1..Len(summary) : summary[i] \notin { "A", "b", "," }],
      [problem |-> "summary exceeds length limit",
       violated |-> Len(summary) > config.summary_max_length] }

Occurrences(problem, problems) ==
    Cardinality({ i \in 1..Len(problems) : problems[i] = problem })

\* C20: validate_summary returns the empty list exactly when the summary
\* violates no rule (it is non-empty, has no comma under the comma ban, is
\* all ASCII under the ASCII-only rule, and is no longer than the
\* maximum); otherwise the list has exactly one problem for each violated
\* rule and nothing else, whatever the origin of the summary.
C20_OneProblemPerViolatedRule ==
    Validated =>
        LET rules == SummaryRules(out.val.summary)
            problems == out.val.problems
        IN  /\ problems = <<>> <=> \A rule \in rules : ~rule.violated
            /\ \A rule \in rules :
                   Occurrences(rule.problem, problems) = IF rule.violated THEN 1 ELSE 0
            /\ Len(problems) = Cardinality({ rule \in rules : rule.violated })

\* A summary with a comma and a non-ASCII character, longer than the
\* maximum, under both bans: three problems.
C20_Witness ==
    /\ Validated
    /\ out.val.summary = << ",", EAcute, "A" >>
    /\ config.summary_no_commas /\ config.summary_ascii_only
    /\ config.summary_max_length = 2
    /\ Len(out.val.problems) = 3

(***************************************************************************)
(* The lint command under the untracked-file policy                        *)
(***************************************************************************)

NameIPng == <<"i", ".", "p", "n", "g">>
PngExt == <<".", "p", "n", "g">>
LineManualIPng == <<" ", " ", "i", ".", "p", "n", "g", ",", " ", "M", "n">>

\* The repositories: a.py with a header, the text file n.txt, and any of
\* the image i.png at the root and the image d/i.png.
UntrackedRepos ==
    { [dirs |-> { Parent(p) : p \in files } \ {RootPath},
       files |-> (<<NameAPy>> :> SourceWithHeader) @@ (<<NameNotes>> :> NotesCode)
                     @@ [p \in files |-> NotesCode]] :
        files \in SUBSET { <<NameIPng>>, <<NameD, NameIPng>> } }

\* The manual lists: none, one that lists i.png, one that lists n.txt.
ManualLists ==
    { <<>>, <<LineManualHeader, LineManualIPng>>, <<LineManualHeader, LineManualNotes>> }

\* The allowlists of a configuration: the manual list itself and at most
\* one of the name i.png, the file i.png and the directory d.
Allowlists ==
    { [names |-> {NamePurpose} \cup names, files |-> {NameManual} \cup files, dirs |-> dirs] :
        <<names, files, dirs>> \in
            { <<{}, {}, {}>>, <<{NameIPng}, {}, {}>>, <<{}, {NameIPng}, {}>>,
              <<{}, {}, {PrefixD}>> } }

\* .png is the asset extension; the directory d is an approved asset root
\* or there is none.
UntrackedConfig(manual, allowlist, roots) ==
    [DefaultConfig EXCEPT
        !.manual_files_path = IF manual THEN Some(<<NameManual>>) ELSE None,
        !.asset_extensions = {PngExt},
        !.asset_allowed_prefixes = roots,
        !.allowed_untracked_filenames = allowlist.names,
        !.untracked_allowlist_files = allowlist.files,
        !.untracked_allowlist_dir_prefixes = allowlist.dirs]

InitUntracked ==
    \E repo \in UntrackedRepos, lines \in ManualLists, roots \in { {}, {PrefixD} } :
        \E allowlist \in Allowlists :
            /\ fs = IF lines = <<>> THEN repo
                    ELSE [repo EXCEPT !.files = (<<NameManual>> :> Text(lines)) @@ repo.files]
            /\ config = UntrackedConfig(lines # <<>>, allowlist, roots)
            /\ out = NoOutcome
            /\ synced = FALSE

\* The values of the environment variable CI: unset, "1" and "0".
CIValues == { None, Some(<<"1">>), Some(<<"0">>) }

\* The flags of the lint command, all of them.
PolicyFlags ==
    [strict_folders : BOOLEAN, report_untracked : BOOLEAN, strict_untracked : BOOLEAN]

\* projectatlas lint, with any flags, in any environment
LintUnderPolicy ==
    /\ \E walk \in iter_repo_paths_with_untracked(fs, config) :
           \E facts \in { LintFacts(fs, config, walk) } :
               \E flags \in PolicyFlags, ci \in CIValues, allow \in EnvValues :
                   out' = [ op |-> "lint",
                            val |-> [ flags |-> flags,
                                      env |-> [CI |-> ci, PROJECTATLAS_ALLOW_UNTRACKED |-> allow],
                                      outcome |-> LintOutcome(facts, flags,
                                          [ CI |-> ci,
                                            PROJECTATLAS_ALLOW_UNTRACKED |-> allow ]) ] ]
    /\ UNCHANGED <<fs, config, synced>>

NextPolicy == RunMap \/ LintUnderPolicy

SpecUntracked == InitUntracked /\ [][NextPolicy]_vars

(***************************************************************************)
(* Assets outside the approved roots (claim C21)                           *)
(***************************************************************************)

LintedUnderPolicy == out.op = "lint" /\ "env" \in DOMAIN out.val
Disallowed == Range(out.val.outcome.report.disallowed_untracked)
AssetsOutsideRoots == Range(out.val.outcome.report.asset_outside_roots)

\* The untracked files of the repository that have the asset extension
\* and are not under an approved asset root.
StrayAssets ==
    { path \in DOMAIN fs.files :
        /\ Name(path) = NameIPng
        /\ ~(Parent(path) = <<NameD>> /\ PrefixD \in config.asset_allowed_prefixes) }

\* The file is on the manual list.
ManuallyListed(path) ==
    /\ config.manual_files_path.has
    /\ path = <<NameIPng>>
    /\ fs.files[<<NameManual>>] = Text(<<LineManualHeader, LineManualIPng>>)

\* C21: when the untracked files are reported, every untracked file with
\* an asset extension that is not under an approved asset root is
\* disallowed and listed among the assets outside the allowed roots,
\* whether or not it is on the manual list or matches an allowed name, an
\* allowlisted directory or an allowlisted file.
C21_StrayAssetsAreDisallowed ==
    (LintedUnderPolicy /\ out.val.flags.report_untracked)
        => \A path \in StrayAssets : path \in Disallowed /\ path \in AssetsOutsideRoots

(***************************************************************************)
(* Enforcement of the untracked-file policy (claim C22)                    *)
(***************************************************************************)

UntrackedDetected == "Untracked files detected."

\* The value of an environment variable is truthy: of the values unset,
\* "1" and "0", the value "1".
TruthySetting(value) == value = Some(<<"1">>)

\* Enforcement as the flags and the environment decide it: off under the
\* override, on under strict-untracked, otherwise as the CI signal says.
EnforcementOn ==
    IF TruthySetting(out.val.env.PROJECTATLAS_ALLOW_UNTRACKED) THEN FALSE
    ELSE IF out.val.flags.strict_untracked THEN TRUE
    ELSE TruthySetting(out.val.env.CI)

\* C22: with the policy enabled and at least one disallowed untracked
\* file, run_lint reports 'Untracked files detected.' (and fails) exactly
\* when enforcement is on: off when PROJECTATLAS_ALLOW_UNTRACKED is truthy,
\* on when strict-untracked is set, otherwise on exactly when CI is
\* truthy.
C22_EnforcementFollowsCI ==
    (LintedUnderPolicy /\ out.val.flags.report_untracked /\ Disallowed # {})
        => /\ UntrackedDetected \in Range(out.val.outcome.errors) <=> EnforcementOn
           /\ EnforcementOn => out.val.outcome.code = 1

(***************************************************************************)
(* The lint command over repositories with bad headers and markers         *)
(***************************************************************************)

SourceWithComma == Text(<<LineQuotes, LinePurposeComma, LineQuotes>>)
MarkerWithComma == Text(<<LinePurposeComma>>)

\* The repositories: a.py with a header, without one or with one whose
\* summary has a comma; at the root a marker file, none, one with a comma
\* in its summary or one with a comment alone; the folder d with a
\* marker file, without one, or not there.
HeaderRepos ==
    { [dirs |-> dirs, files |-> source @@ marker @@ below] :
        source \in { (<<NameAPy>> :> text) :
                       text \in {SourceWithHeader, SourceNoHeader, SourceWithComma} },
        marker \in { <<>> } \cup { (<<NamePurpose>> :> text) :
                                     text \in {MarkerPurpose, MarkerWithComma, MarkerComment} },
        <<dirs, below>> \in { <<{}, <<>>>>, <<{<<NameD>>}, <<>>>>,
                              <<{<<NameD>>}, (<<NameD, NamePurpose>> :> MarkerPurpose)>> } }

InitHeaders ==
    /\ fs \in HeaderRepos
    /\ config = DefaultConfig
    /\ out = NoOutcome
    /\ synced = FALSE

SpecHeaders == InitHeaders /\ [][NextPolicy]_vars

(***************************************************************************)
(* What always fails the lint and what fails it under strict-folders       *)
(* (claim C23)                                                             *)
(***************************************************************************)

MissingFolderPurposeFiles == "Missing folder Purpose files:"

\* The tracked file a.py has no header, or a header with a bad summary.
BadHeader == fs.files[<<NameAPy>>] \in {SourceNoHeader, SourceWithComma}

\* A tracked folder has a marker file with a bad summary or with none.
BadMarker ==
    \E folder \in {RootPath} \cup fs.dirs :
        /\ folder \o <<NamePurpose>> \in DOMAIN fs.files
        /\ fs.files[folder \o <<NamePurpose>>] \in {MarkerWithComma, MarkerComment}

\* A tracked folder (the root, or d) has no marker file.
FolderWithoutMarker ==
    \E folder \in {RootPath} \cup (fs.dirs \cap { <<NameD>> }) :
        folder \o <<NamePurpose>> \notin DOMAIN fs.files

\* C23: run_lint fails whenever a tracked file has a missing or invalid
\* header or a tracked folder an invalid marker summary, whatever the
\* flags; a tracked folder without a marker file is reported, and fails
\* the lint, under strict-folders, and without strict-folders is not an
\* error: the lint of a freshly mapped repository with nothing else wrong
\* passes.
C23_FailuresOfTheLint ==
    LintedUnderPolicy =>
        /\ (BadHeader \/ BadMarker) => out.val.outcome.code = 1
        /\ MissingFolderPurposeFiles \in Range(out.val.outcome.errors)
               <=> (out.val.flags.strict_folders /\ FolderWithoutMarker)
        /\ (out.val.flags.strict_folders /\ FolderWithoutMarker) => out.val.outcome.code = 1
        /\ (~out.val.flags.strict_folders /\ synced /\ ~BadHeader /\ ~BadMarker)
               => out.val.outcome.code = 0

\* The lint of a freshly mapped repository whose folder d has no marker
\* file passes without strict-folders.
C23_Witness ==
    /\ LintedUnderPolicy
    /\ synced
    /\ ~out.val.flags.strict_folders
    /\ <<NameD>> \in fs.dirs /\ <<NameD, NamePurpose>> \notin DOMAIN fs.files
    /\ ~BadHeader /\ ~BadMarker
    /\ out.val.outcome.code = 0

(***************************************************************************)
(* Record building over files with undecodable bytes                       *)
(***************************************************************************)

LinePurposeBadByte == <<"P", "u", "r", "p", "o", "s", "e", ":", " ", "A", BadByte, "b">>
LineBadByte == <<BadByte>>

\* Source files: the summary holds an undecodable byte; an undecodable
\* line comes before the docstring.
SourceBadSummary == Text(<<LineQuotes, LinePurposeBadByte, LineQuotes>>)
SourceBadFirstLine == Text(<<LineBadByte, LineQuotes, LinePurpose, LineQuotes>>)

\* Marker files: the summary holds an undecodable byte; an undecodable
\* line comes after the summary.
MarkerBadSummary == Text(<<LinePurposeBadByte>>)
MarkerBadLastLine == Text(<<LinePurpose, LineBadByte>>)

UndecodableContents ==
    { SourceBadSummary, SourceBadFirstLine, MarkerBadSummary, MarkerBadLastLine }

\* The repositories: a.py and e.py; a marker file, or none, at the root
\* and in the folder d.
DecodeRepos ==
    { [dirs |-> { <<NameD>> },
       files |-> (<<NameAPy>> :> first) @@ (<<NameEPy>> :> second) @@ root @@ below] :
        first \in { SourceWithHeader, SourceBadSummary, SourceBadFirstLine },
        second \in { SourceWithHeader, SourceNoHeader, SourceBadSummary },
        root \in { <<>> } \cup { (<<NamePurpose>> :> text) :
                                   text \in { MarkerPurpose, MarkerComment,
                                              MarkerBadSummary, MarkerBadLastLine } },
        below \in { <<>> } \cup { (<<NameD, NamePurpose>> :> text) :
                                    text \in { MarkerPurpose, MarkerBadSummary } } }

InitDecode ==
    /\ fs \in DecodeRepos
    /\ config = DefaultConfig
    /\ out = NoOutcome
    /\ synced = FALSE

SpecDecode == InitDecode /\ [][NextExtract]_vars

(***************************************************************************)
(* One record per input, whatever the content (claim C24)                  *)
(***************************************************************************)

\* The records are those of the paths, one each, in the order of the
\* paths.
OneRecordEach(records, paths) ==
    /\ Len(records) = Len(paths)
    /\ \A i \in 1..Len(paths) : records[i].path = AsPosix(paths[i])

\* The record of an input with undecodable content is a missing or an
\* invalid one.
Degraded(records, paths, Content(_)) ==
    \A i \in 1..Len(paths) :
        (i \in DOMAIN records /\ Content(paths[i]) \in UndecodableContents)
            => records[i].source \in {"missing", "invalid"}

SourceContent(path) == fs.files[path]
FolderMarkerContent(folder) ==
    IF folder \o <<NamePurpose>> \in DOMAIN fs.files
    THEN fs.files[folder \o <<NamePurpose>>] ELSE <<>>

\* C24: build_file_records returns exactly one record per input file and
\* build_folder_records one per input folder, in input order, whatever
\* the content of the source files and the marker files, undecodable
\* bytes included; each such input has a missing or an invalid record.
C24_OneRecordPerInput ==
    out.op = "records" =>
        /\ OneRecordEach(out.val.files.records, out.val.walk.files)
        /\ Degraded(out.val.files.records, out.val.walk.files, SourceContent)
        /\ OneRecordEach(out.val.folders.records, out.val.walk.folders)
        /\ Degraded(out.val.folders.records, out.val.walk.folders, FolderMarkerContent)

(***************************************************************************)
(* Header extraction under small scan bounds                               *)
(***************************************************************************)

ScanPyLines ==
    { LineQuotes, LineQuotesPurpose, LineOneLineDocstring, LinePurpose, LineComment,
      LineCode, LineBlank }

ScanJsLines ==
    { LineJavadocOpen, LineStarPurpose, LineJavadocClose, LineStarPurposeClose,
      LineOneLineJavadoc, LineCode, LineBlank }

\* The longest file, in lines, and the values of max_scan_lines.
MaxScanFileLines == 4
ScanLimits == { 1, 2, 3, 80 }

InitScan ==
    /\ \/ \E lines \in SeqsUpTo(ScanPyLines, MaxScanFileLines) : fs = OneFile(NameAPy, lines)
       \/ \E lines \in SeqsUpTo(ScanJsLines, MaxScanFileLines) : fs = OneFile(NameBJs, lines)
    /\ config \in { [DefaultConfig EXCEPT !.max_scan_lines = limit] : limit \in ScanLimits }
    /\ out = NoOutcome
    /\ synced = FALSE

\* extract_purpose_header(path, config) and the iteration of
\* build_file_records that calls it, for the one file of the repository
ExtractHeader ==
    /\ out.op = "none"
    /\ \E path \in DOMAIN fs.files :
           out' = [op |-> "header",
                   val |-> [path |-> path,
                            header |-> extract_purpose_header(path, fs, config),
                            outcome |-> FileOutcome(path, fs, config)]]
    /\ UNCHANGED <<fs, config, synced>>

NextHeader == ExtractHeader

SpecScan == InitScan /\ [][NextHeader]_vars

(***************************************************************************)
(* The bound on the search for the close marker (claim C25)                *)
(***************************************************************************)

Extracted == out.op = "header"
ExtractedLines == splitlines(fs.files[out.val.path])
IsModule == file_extension(out.val.path) = PyExt

\* The line that opens the header block (0 when there is none) and
\* whether the block closes on that line.
Opener(lines) ==
    IF IsModule
    THEN IF ModuleContent(lines) # {}
              /\ PY_DOCSTRING_START_RE(Strip(lines[Min(ModuleContent(lines))])).matched
         THEN Min(ModuleContent(lines)) ELSE 0
    ELSE IF JavadocContent(lines) # {} /\ JAVADOC_START_RE(lines[Min(JavadocContent(lines))])
         THEN Min(JavadocContent(lines)) ELSE 0

ClosesOnOpener(lines) ==
    LET line == Strip(lines[Opener(lines)])
    IN  Contains(From(line, 4), IF IsModule THEN TripleDouble ELSE BlockClose)

HasCloseMarker(line) == Contains(line, IF IsModule THEN TripleDouble ELSE BlockClose)

\* The lines after the opener whose index, counted from 0 at the start
\* of the file, is below max_scan_lines.
Inspected(lines) ==
    { j \in (Opener(lines) + 1)..Len(lines) : j - 1 < config.max_scan_lines }

Unterminated ==
    Extraction(None, << IF IsModule THEN "unterminated module docstring"
                        ELSE "unterminated Javadoc-style header" >>)

\* The file cut after its first max_scan_lines lines.
WithinBound(lines) ==
    SubSeq(lines, 1, IF Len(lines) < config.max_scan_lines THEN Len(lines)
                     ELSE config.max_scan_lines)

\* C25: when the header block does not close on its opening line, the
\* result is no summary with the one issue 'unterminated ...' exactly when
\* no line after the opener with an index below max_scan_lines holds the
\* close marker, and lines beyond the bound have no part in the result.
C25_CloseSearchIsBounded ==
    (Extracted /\ Opener(ExtractedLines) # 0 /\ ~ClosesOnOpener(ExtractedLines))
        => /\ out.val.header = Unterminated
               <=> \A j \in Inspected(ExtractedLines) : ~HasCloseMarker(ExtractedLines[j])
           /\ Opener(ExtractedLines) <= config.max_scan_lines
               => out.val.header
                      = extract_purpose_header(out.val.path,
                            OneFile(Name(out.val.path), WithinBound(ExtractedLines)), config)

\* A block whose close marker stands on the first line beyond the bound:
\* unterminated.
C25_Witness ==
    /\ Extracted
    /\ config.max_scan_lines = 2
    /\ ExtractedLines \in { <<LineQuotes, LinePurpose, LineQuotes>>,
                            <<LineJavadocOpen, LineStarPurpose, LineJavadocClose>> }
    /\ out.val.header = Unterminated

(***************************************************************************)
(* Header extraction from template files                                   *)
(***************************************************************************)

TemplateLines ==
    { LineScript, LineScriptEnd, LineStyle, LineStyleEnd,
      LineJavadocOpen, LineStarPurposeClose, LineJavadocClose }

\* The longest template file, in lines.
MaxTemplateLines == 5

\* Template files with two blocks, a script and a style block in either
\* order, each around up to two lines of a Javadoc header.
TwoBlockFiles ==
    { <<first[1]>> \o above \o <<first[2]>> \o <<second[1]>> \o below \o <<second[2]>> :
        first \in { <<LineScript, LineScriptEnd>>, <<LineStyle, LineStyleEnd>> },
        second \in { <<LineScript, LineScriptEnd>>, <<LineStyle, LineStyleEnd>> },
        above \in SeqsUpTo({LineJavadocOpen, LineStarPurposeClose, LineJavadocClose}, 2),
        below \in SeqsUpTo({LineJavadocOpen, LineStarPurposeClose, LineJavadocClose}, 2) }

InitTemplate ==
    /\ \E lines \in SeqsUpTo(TemplateLines, MaxTemplateLines) \cup TwoBlockFiles :
           fs = OneFile(NameCVue, lines)
    /\ config = DefaultConfig
    /\ out = NoOutcome
    /\ synced = FALSE

SpecTemplate == InitTemplate /\ [][NextHeader]_vars

(***************************************************************************)
(* The block the template dialect examines (claim C26)                     *)
(***************************************************************************)

\* The tags of the template dialect, with the lines that open and close
\* their blocks.
ScriptBlock == [name |-> "script", open |-> LineScript, close |-> LineScriptEnd]
StyleBlock == [name |-> "style", open |-> LineStyle, close |-> LineStyleEnd]

Opens(lines, block) == { i \in 1..Len(lines) : lines[i] = block.open }

\* The first line after the first opening line of the block that closes
\* it (0 when there is none).
ClosedAt(lines, block) ==
    LET closes == { j \in (Min(Opens(lines, block)) + 1)..Len(lines) : lines[j] = block.close }
    IN  IF closes = {} THEN 0 ELSE Min(closes)

\* The lines between the first opening line of the block and the line
\* that closes it.
Enclosed(lines, block) ==
    SubSeq(lines, Min(Opens(lines, block)) + 1, ClosedAt(lines, block) - 1)

\* The block examined: the script block when a script tag exists, else
\* the style block.
Selected(lines) == IF Opens(lines, ScriptBlock) # {} THEN ScriptBlock ELSE StyleBlock

NoTag(lines) == Opens(lines, ScriptBlock) = {} /\ Opens(lines, StyleBlock) = {}

\* C26: the block examined is that of the first <script> line if there
\* is one, and that of the first <style> line only when there is no
\* <script> line at all; it ends at the first later line with the
\* matching closing tag, and without such a line the result is
\* "unterminated <tag> block"; a summary is one found in the lines the
\* examined block encloses; with neither tag the result is "missing
\* Javadoc-style Purpose header in <script> or <style> block" and the
\* file is classified missing.
C26_TemplateBlockSelection ==
    (Extracted /\ file_extension(out.val.path) = VueExt) =>
        LET lines == ExtractedLines
            block == Selected(lines)
        IN  IF NoTag(lines)
            THEN /\ out.val.header
                        = Extraction(None, <<"missing Javadoc-style Purpose header in <script> or <style> block">>)
                 /\ out.val.outcome.list = "missing"
            ELSE IF ClosedAt(lines, block) = 0
            THEN out.val.header
                     = Extraction(None, << "unterminated <" \o block.name \o "> block" >>)
            ELSE /\ out.val.header.issues # << "unterminated <" \o block.name \o "> block" >>
                 /\ Truthy(out.val.header.summary)
                        <=> Truthy(extract_javadoc_purpose(Enclosed(lines, block),
                                                           config.max_scan_lines).summary)
                 /\ Truthy(out.val.header.summary)
                        => out.val.header
                               = extract_javadoc_purpose(Enclosed(lines, block),
                                                         config.max_scan_lines)

\* A script block without a header before a style block with one: no
\* summary.
C26_Witness ==
    /\ Extracted
    /\ ExtractedLines
           = <<LineScript, LineScriptEnd, LineStyle, LineJavadocOpen, LineStarPurposeClose, LineStyleEnd>>
    /\ ~Truthy(out.val.header.summary)

(***************************************************************************)
(* The template dialect and the Javadoc dialect agree (claim C27)          *)
(***************************************************************************)

\* C27: for a template file whose examined block has a closing tag, the
\* outcome is that of the Javadoc dialect on the enclosed lines: the same
\* summary when there is one, else the same kind of failure, so the file
\* is classified (missing or invalid, with which record) as a Javadoc file
\* with those lines would be.
C27_TemplateAgreesWithJavadoc ==
    (Extracted /\ file_extension(out.val.path) = VueExt /\ ~NoTag(ExtractedLines)
       /\ ClosedAt(ExtractedLines, Selected(ExtractedLines)) # 0) =>
        LET inner == extract_javadoc_purpose(
                         Enclosed(ExtractedLines, Selected(ExtractedLines)),
                         config.max_scan_lines)
            as_javadoc == FileRecord(AsPosix(out.val.path), inner, config)
        IN  /\ out.val.header.summary = inner.summary
            /\ out.val.outcome.list = as_javadoc.list
            /\ out.val.outcome.record = as_javadoc.record

(***************************************************************************)
(* A Javadoc header on one line (claim C28)                                *)
(***************************************************************************)

\* C28: in the Javadoc dialect, a header whose opening line
\* `/** Purpose: X */` also holds the close marker is a complete block:
\* the result is the normalized X with no issues, whatever lines follow
\* it, and also when it is the last line of the file.
C28_OneLineJavadocHeader ==
    (Extracted /\ ~IsModule /\ Opener(ExtractedLines) # 0
       /\ ExtractedLines[Opener(ExtractedLines)] = LineOneLineJavadoc)
        => out.val.header = Extraction(Some(SummaryAb), <<>>)

(***************************************************************************)
(* The rendered folder tree                                                *)
(***************************************************************************)

NameA == <<"a">>
NameADotB == <<"a", ".", "b">>
NameADashB == <<"a", "-", "b">>

\* The folders a repository can have below its root.
TreeFolders ==
    { <<NameA>>, <<NameA, NameB>>, <<NameADotB>>, <<NameADashB>>, <<NameADashB, NameB>>,
      <<NameD>> }

\* The repositories: folders, each with its parent, and a marker file at
\* the root and in the folder a, or not.
FolderTrees ==
    { [dirs |-> dirs, files |-> [path \in markers |-> MarkerPurpose]] :
        dirs \in { ds \in SUBSET TreeFolders : \A d \in ds : Parent(d) \in ds \cup {RootPath} },
        markers \in SUBSET { <<NamePurpose>>, <<NameA, NamePurpose>> } }

InitTree ==
    /\ fs \in { tree \in FolderTrees :
                  \A path \in DOMAIN tree.files : Parent(path) \in tree.dirs \cup {RootPath} }
    /\ config = DefaultConfig
    /\ out = NoOutcome
    /\ synced = FALSE

\* build_snapshot(config), of which the folder tree is kept
BuildTree ==
    /\ out.op = "none"
    /\ \E walk \in iter_repo_paths(fs, config) :
           out' = [op |-> "tree",
                   val |-> [folders |-> walk.folders,
                            folder_tree |-> build_snapshot(fs, config, walk, StampOne).folder_tree]]
    /\ UNCHANGED <<fs, config, synced>>

NextTree == BuildTree

SpecTree == InitTree /\ [][NextTree]_vars

(***************************************************************************)
(* One line per folder, every subtree contiguous (claim C29)               *)
(***************************************************************************)

\* The line is one of the folder: two spaces per '/' of its relative
\* path, then its name (for the root, the path '.').
LineOfFolder(line, folder) ==
    IF folder = RootPath THEN StartsWith(line, <<".", " ", "-", " ">>)
    ELSE StartsWith(line, Spaces(2 * (Len(folder) - 1)) \o Name(folder)
                              \o <<"/", " ", "-", " ">>)

\* With the folders read off the lines in this order, every folder other
\* than the root comes after its parent, with only folders of the
\* parent's subtree in between.
SubtreesContiguous(order) ==
    \A i \in 1..Len(order) :
        order[i] # RootPath
            => \E j \in 1..(i - 1) :
                   /\ order[j] = Parent(order[i])
                   /\ \A k \in (j + 1)..(i - 1) : LeadsPath(order[j], order[k])

\* C29: the tree has exactly one line per tracked folder, indented two
\* spaces per '/' of the folder's relative path, and every folder other
\* than the root has its line after that of its parent with no line of a
\* folder outside the parent's subtree in between, whatever the names of
\* the folders.
C29_FolderTreeIsATree ==
    out.op = "tree" =>
        /\ Len(out.val.folder_tree) = Cardinality({RootPath} \cup fs.dirs)
        /\ \E order \in Orders({RootPath} \cup fs.dirs) :
               /\ \A i \in 1..Len(order) : LineOfFolder(out.val.folder_tree[i], order[i])
               /\ SubtreesContiguous(order)

(***************************************************************************)
(* Seeding of marker files                                                 *)
(***************************************************************************)

\* The repositories: a.py with or without a header; a marker file, or
\* none, at the root; the folder d with a marker file, without one, or
\* not there; the excluded folder .git, or not.
SeedRepos ==
    { [dirs |-> dirs \cup hidden, files |-> source @@ marker @@ below] :
        source \in { (<<NameAPy>> :> text) : text \in {SourceWithHeader, SourceNoHeader} },
        marker \in { <<>>, (<<NamePurpose>> :> MarkerPurpose) },
        hidden \in { {}, { <<NameGit>> } },
        <<dirs, below>> \in { <<{}, <<>>>>, <<{<<NameD>>}, <<>>>>,
                              <<{<<NameD>>}, (<<NameD, NamePurpose>> :> MarkerPurpose)>> } }

InitSeed ==
    /\ fs \in SeedRepos
    /\ config = DefaultConfig
    /\ out = NoOutcome
    /\ synced = FALSE

\* projectatlas seed-purpose, after a lint whose result is kept for the
\* comparison
SeedPurposeFiles ==
    /\ out.op = "lint" /\ "seeded" \notin DOMAIN out.val
    /\ fs' \in seed_purpose_files(fs, config)
    /\ out' = [op |-> "seed", val |-> [before |-> fs, lint |-> out.val]]
    /\ UNCHANGED <<config, synced>>

\* projectatlas lint after the seeding, with the flags of the lint before
\* it
LintSeeded ==
    /\ out.op = "seed"
    /\ \E walk \in iter_repo_paths_with_untracked(fs, config) :
           \E facts \in { LintFacts(fs, config, walk) } :
               out' = [ op |-> "lint",
                        val |-> [ flags |-> out.val.lint.flags,
                                  outcome |-> LintOutcome(facts, out.val.lint.flags,
                                      [ CI |-> None,
                                        PROJECTATLAS_ALLOW_UNTRACKED |-> None ]),
                                  seeded |-> out.val ] ]
    /\ UNCHANGED <<fs, config, synced>>

NextSeed == RunMap \/ RunLint \/ SeedPurposeFiles \/ LintSeeded

SpecSeed == InitSeed /\ [][NextSeed]_vars

(***************************************************************************)
(* Seeding and the gate (claim C30)                                        *)
(***************************************************************************)

\* The tracked folders of a repository of SeedRepos: the root and d.
SeedableFolders(repo) == {RootPath} \cup (repo.dirs \cap { <<NameD>> })

\* The seeding created a marker file in exactly the tracked folders that
\* had none, and left every other file as it was.
SeededOnlyWhereLacking(before, after) ==
    /\ after.dirs = before.dirs
    /\ \A path \in DOMAIN before.files :
           path \in DOMAIN after.files /\ after.files[path] = before.files[path]
    /\ DOMAIN after.files \ DOMAIN before.files
           = { folder \o <<NamePurpose>> : folder \in SeedableFolders(before) }
                 \ DOMAIN before.files

\* C30: seed_purpose_files creates a marker file only in the tracked
\* folders that lack one and modifies no existing file, and when run_lint
\* without strict-folders passes on a repository, it still passes, with
\* the same flags, after seed_purpose_files has run on it.
C30_SeedingIsTransparent ==
    /\ out.op = "seed" => SeededOnlyWhereLacking(out.val.before, fs)
    /\ (out.op = "lint" /\ "seeded" \in DOMAIN out.val
          /\ ~out.val.flags.strict_folders /\ out.val.seeded.lint.outcome.code = 0)
           => out.val.outcome.code = 0

====
